---------------------------- MODULE Spec2Model ----------------------------
(***************************************************************************)
(* Calendar-extension: the OAuth credential lifecycle of src/lib/auth.js   *)
(* and the day-by-day scheduler of src/background/background.js.           *)
(*                                                                         *)
(* Time is in milliseconds, as Date.now() gives it.  A JavaScript value    *)
(* that is undefined (or null, or the empty string: everything the code    *)
(* tests with `!x` or `x || y`) is the string Undefined; a number that is  *)
(* undefined, 0 or NaN is 0.  The credential store holds one record; the   *)
(* record with stored = FALSE is "nothing stored" (loadTokens gives null). *)
(*                                                                         *)
(* Every invocation (a caller of the public API of auth.js, or one message *)
(* handled by the background listener) is a process p; it takes one step   *)
(* per await that waits for something outside the extension, so that the   *)
(* steps of two invocations interleave as the event loop interleaves them. *)
(***************************************************************************)
EXTENDS Integers, Sequences, FiniteSets, TLC

\* ------------------------------------------------------------ bounds
\* How many invocations may be started in one behaviour.
MaxCalls == 2
\* How many times the clock advances (by TickMs) in one behaviour.
MaxTicks == 1
\* filterFreeSlots is tried on sequences of at most MaxSeqLen slots and busy
\* periods, with instants in 0..MaxInstant.
MaxSeqLen == 2
MaxInstant == 2
\* The calendar days a request may name: 1..MaxDay.
MaxDay == 3
\* The UTC day on which the browser's zone changes its offset, when it does.
DstDay == 2
\* How many slots of the endless loop of createTimeSlots are kept.
MaxTurns == 2
\* createTimeSlots, maxTimeStr and minTimeStr are tried on the times of the
\* hours 9..9 + MaxSpan.
MaxSpan == 2

\* ------------------------------------------------------------ constants
Undefined == "<undefined>"
DEFAULT_CLIENT_ID == "client.apps.googleusercontent.com"
DEFAULT_CLIENT_SECRET == "code-secret"
PLACEHOLDER_CLIENT_ID == "TU_CLIENT_ID.apps.googleusercontent.com"
PLACEHOLDER_CLIENT_SECRET == "TU_CLIENT_SECRET_AQUI"
\* manifest.json is not part of the sources: no oauth2.client_id.
manifestClientId == Undefined
SCOPES == "https://www.googleapis.com/auth/calendar"
\* isTokenStillValid: 60 s of margin.
MarginMs == 60 * 1000
\* expires_in when the provider omits it, in seconds.
DefaultExpiresIn == 3600
\* The clock of the model: it starts at StartMs and advances by TickMs.
TickMs == 30 * 1000
StartMs == 100 * TickMs

\* The concurrent invocations.
Procs == {1, 2}

\* `!x` of JavaScript, for the string values of the model.
Truthy(v) == v # Undefined

\* ------------------------------------------------------------ credentials
\* loadTokens() when nothing is stored: null.
NoTokens ==
  [stored |-> FALSE, access_token |-> Undefined, refresh_token |-> Undefined,
   expires_at |-> 0]

Tokens(a, r, e) ==
  [stored |-> TRUE, access_token |-> a, refresh_token |-> r, expires_at |-> e]

\* A mutant of isTokenStillValid: the 60 s margin is forgotten.
isTokenStillValid_NoMargin(t, nowMs) ==
  IF ~t.stored \/ ~Truthy(t.access_token) \/ t.expires_at = 0
    THEN FALSE
    ELSE nowMs < t.expires_at

isTokenStillValid(t, nowMs) ==
  IF ~t.stored \/ ~Truthy(t.access_token) \/ t.expires_at = 0
    THEN FALSE
    ELSE nowMs < (t.expires_at - MarginMs)

\* getClientId: the configured one, else the default, else the manifest's.
getClientId(c) ==
  IF Truthy(c.clientId) THEN [ok |-> TRUE, value |-> c.clientId]
  ELSE IF Truthy(DEFAULT_CLIENT_ID) /\ DEFAULT_CLIENT_ID # PLACEHOLDER_CLIENT_ID
    THEN [ok |-> TRUE, value |-> DEFAULT_CLIENT_ID]
  ELSE IF Truthy(manifestClientId)
    THEN [ok |-> TRUE, value |-> manifestClientId]
  ELSE [ok |-> FALSE, value |-> "Client ID de Google no configurado."]

\* getClientSecret: the configured one, else the default.
getClientSecret(c) ==
  IF Truthy(c.clientSecret) THEN [ok |-> TRUE, value |-> c.clientSecret]
  ELSE IF Truthy(DEFAULT_CLIENT_SECRET)
          /\ DEFAULT_CLIENT_SECRET # PLACEHOLDER_CLIENT_SECRET
    THEN [ok |-> TRUE, value |-> DEFAULT_CLIENT_SECRET]
  ELSE [ok |-> FALSE, value |-> "Client Secret de Google no configurado."]

\* createCodeChallenge: base64url(SHA-256(verifier)), a one-way image of it.
createCodeChallenge(verifier) == <<"S256", verifier>>

\* now + (data.expires_in || 3600) * 1000
ExpiresAt(nowMs, expires_in) ==
  nowMs + (IF expires_in = 0 THEN DefaultExpiresIn ELSE expires_in) * 1000

\* ------------------------------------------------------------ state
VARIABLES
  store,        \* chrome.storage.local[TOKEN_KEY]: the stored credential
  cfg,          \* chrome.storage.sync.schedulerConfig
  now,          \* Date.now()
  started,      \* invocations started so far
  pc,           \* pc[p]: where invocation p stands
  op,           \* op[p]: what invocation p was asked to do
  tokens,       \* tokens[p]: the credential p loaded (local `tokens`)
  clientId,     \* clientId[p]: local `clientId`
  codeVerifier, \* codeVerifier[p]: local `codeVerifier`
  req,          \* req[p]: the request of p that awaits its answer
  data,         \* data[p]: the last token-endpoint response p read
  calls,        \* calls[p]: requests p sent in this invocation, by kind
  result,       \* result[p]: what the invocation returned or threw
  accessToken,  \* accessToken[p]: runScheduler's local `accessToken`
  tz,           \* the time zone of the browser (its UTC offsets)
  payload,      \* payload[p]: the SchedulingRequest of the message
  slotMinutes,  \* slotMinutes[p]: runScheduler's local `slotMinutes`
  config,       \* config[p]: what runScheduler's loadConfig gave it
  current,      \* current[p]: runScheduler's Date `current`
  totalSlots,   \* totalSlots[p]
  totalCreated, \* totalCreated[p]
  daySlots,     \* daySlots[p]: the slots of the day being processed
  busyPeriods,  \* busyPeriods[p]: the busy periods of that day
  freeSlots,    \* freeSlots[p]: the free slots of that day
  slotIdx,      \* slotIdx[p]: the free slot whose event is being created
  dayStartStr,  \* dayStartStr[p]: the start of the day's effective range
  dayEndStr,    \* dayEndStr[p]: the end of the day's effective range
  queries,      \* queries[p]: the busy queries of the run, with answers
  events        \* the events created on the calendar, in creation order

authVars ==
  <<store, cfg, now, started, pc, op, tokens, clientId, codeVerifier, req,
    data, calls, result, accessToken>>

\* What auth.js never touches.
schedVars ==
  <<tz, payload, slotMinutes, config, current, totalSlots, totalCreated,
    daySlots, busyPeriods, freeSlots, slotIdx, dayStartStr, dayEndStr,
    queries, events>>

\* ------------------------------------------------------------ inputs
ApiOps == {"isAuthenticated", "startAuthFlow", "getAccessToken", "clearTokens"}
Verifiers == {"v1", "v2"}
\* What chrome.identity.launchWebAuthFlow calls back with.
RedirectOutcomes == {"lastError", "noRedirect", "noCode", "code"}
\* The access token the provider issues in answer to p's request.
Issued(p) == IF p = 1 THEN "AT-1" ELSE "AT-2"
Response(ok, a, r, e) ==
  [ok |-> ok, access_token |-> a, refresh_token |-> r, expires_in |-> e]
\* The token endpoint's answers to p: a non-success status, or a body with
\* or without access_token, refresh_token and expires_in (in seconds; 0 is
\* "omitted").
TokenResponses(p) ==
  {Response(FALSE, Undefined, Undefined, 0),
   Response(TRUE, Issued(p), "RT-new", 0),
   Response(TRUE, Issued(p), Undefined, 90),
   Response(TRUE, Issued(p), Undefined, 30),
   Response(TRUE, Undefined, Undefined, 0)}
NoData == Response(FALSE, Undefined, Undefined, 0)
\* The credentials found in the store when the extension starts.
InitialStores ==
  {NoTokens}
  \cup
  {Tokens("AT-old", r, StartMs + d) :
     r \in {Undefined, "RT-old"}, d \in {30 * 1000, 90 * 1000}}
\* options.js stores what the user typed, as strings; nothing stored is {}.
ConfigChoices ==
  {[clientId |-> Undefined, clientSecret |-> Undefined,
    calendarId |-> Undefined, slotMinutes |-> Undefined,
    timezone |-> Undefined],
   [clientId |-> "user-id", clientSecret |-> "user-secret",
    calendarId |-> "work", slotMinutes |-> "45",
    timezone |-> "Europe/Madrid"]}

\* A slot duration typed into the options page that is no positive number:
\* save() stores input.value as it is.
SlotConfigs ==
  {[clientId |-> Undefined, clientSecret |-> Undefined,
    calendarId |-> Undefined, slotMinutes |-> m, timezone |-> Undefined] :
     m \in {"0", "-15"}}

NoReq == [kind |-> "none"]
NoCalls == [refresh |-> 0, launch |-> 0, exchange |-> 0, busy |-> 0, event |-> 0]
\* A field of a response that is a number when it is there.
Absent == 0 - 1
\* What an invocation answers: status is "ok" for a return and "error" for a
\* throw, which the listener turns into success = true / false; the other
\* fields are those of the listener's responses, each absent unless set.
NoResult ==
  [status |-> "none", token |-> Undefined, error |-> Undefined,
   isAuthenticated |-> FALSE, message |-> <<>>, totalSlots |-> Absent,
   totalCreated |-> Absent]

\* No invocation has begun.
AuthIdle ==
  /\ now = StartMs
  /\ started = 0
  /\ pc = [p \in Procs |-> "idle"]
  /\ op = [p \in Procs |-> "none"]
  /\ tokens = [p \in Procs |-> NoTokens]
  /\ clientId = [p \in Procs |-> Undefined]
  /\ codeVerifier = [p \in Procs |-> Undefined]
  /\ req = [p \in Procs |-> NoReq]
  /\ data = [p \in Procs |-> NoData]
  /\ calls = [p \in Procs |-> NoCalls]
  /\ result = [p \in Procs |-> NoResult]

AuthInit ==
  /\ store \in InitialStores
  /\ cfg \in ConfigChoices
  /\ AuthIdle

\* ------------------------------------------------------------ helpers
\* chrome.identity.getRedirectURL()
RedirectUri == "https://extension-id.chromiumapp.org/"
\* The authorization code carried by a redirect that has one.
AuthCode == "code-1"

\* The locals of p's auth.js frames: tokens, clientId, codeVerifier and the
\* request in flight.
Locals(p, t, c, v, r) ==
  /\ tokens' = [tokens EXCEPT ![p] = t]
  /\ clientId' = [clientId EXCEPT ![p] = c]
  /\ codeVerifier' = [codeVerifier EXCEPT ![p] = v]
  /\ req' = [req EXCEPT ![p] = r]

\* The frames of auth.js are left: their locals are gone.
Leaves(p) == Locals(p, NoTokens, Undefined, Undefined, NoReq)

\* A mutant of Throws: the failure is reported with the totals so far.
Throws_Partial(p, msg) ==
  /\ pc' = [pc EXCEPT ![p] = "done"]
  /\ result' = [result EXCEPT ![p] =
                  [NoResult EXCEPT !.status = "error", !.error = msg,
                                   !.totalSlots = totalSlots[p],
                                   !.totalCreated = totalCreated[p]]]
  /\ Leaves(p)
  /\ UNCHANGED accessToken

\* An exception reaches the caller of the invocation.
Throws(p, msg) ==
  /\ pc' = [pc EXCEPT ![p] = "done"]
  /\ result' = [result EXCEPT ![p] =
                  [NoResult EXCEPT !.status = "error", !.error = msg]]
  /\ Leaves(p)
  /\ UNCHANGED accessToken

\* The invocation returns res to its caller.
Returns(p, res) ==
  /\ pc' = [pc EXCEPT ![p] = "done"]
  /\ result' = [result EXCEPT ![p] = res]
  /\ Leaves(p)
  /\ UNCHANGED accessToken

\* getAccessToken returns tok: to the caller of the API, or to runScheduler,
\* which goes on to its date loop.
ReturnsToken(p, tok) ==
  IF op[p] = "runScheduler"
    THEN /\ pc' = [pc EXCEPT ![p] = "parseDates"]
         /\ accessToken' = [accessToken EXCEPT ![p] = tok]
         /\ Leaves(p)
         /\ UNCHANGED result
    ELSE Returns(p, [NoResult EXCEPT !.status = "ok", !.token = tok])

\* startAuthFlowInternal returns t: getAccessToken returns its access token,
\* startAuthFlow returns true.
ReturnsFromFlow(p, t) ==
  IF op[p] = "startAuthFlow"
    THEN Returns(p, [NoResult EXCEPT !.status = "ok"])
    ELSE ReturnsToken(p, t.access_token)

\* p goes on at `to`, its result not yet known.
Goto(p, to) ==
  /\ pc' = [pc EXCEPT ![p] = to]
  /\ UNCHANGED <<result, accessToken>>

Sent(p, kind) == [calls EXCEPT ![p][kind] = @ + 1]

\* ------------------------------------------------------------ auth.js
\* A caller invokes one operation of the public API.
Call(p, o) ==
  /\ pc[p] \in {"idle", "done"}
  /\ started < MaxCalls
  /\ started' = started + 1
  /\ op' = [op EXCEPT ![p] = o]
  /\ pc' = [pc EXCEPT ![p] = o]
  /\ data' = [data EXCEPT ![p] = NoData]
  /\ calls' = [calls EXCEPT ![p] = NoCalls]
  /\ result' = [result EXCEPT ![p] = NoResult]
  /\ UNCHANGED <<store, cfg, now, tokens, clientId, codeVerifier, req,
                 accessToken, schedVars>>

\* A mutant of clearTokens: only the access token is taken out of the stored
\* credential.
clearTokens_Partial(p) ==
  /\ pc[p] = "clearTokens"
  /\ store' = IF store.stored
                THEN [store EXCEPT !.access_token = Undefined]
                ELSE store
  /\ Returns(p, [NoResult EXCEPT !.status = "ok"])
  /\ UNCHANGED <<cfg, now, started, op, data, calls,
                 schedVars>>

\* clearTokens: chrome.storage.local.remove(TOKEN_KEY).
clearTokens(p) ==
  /\ pc[p] = "clearTokens"
  /\ store' = NoTokens
  /\ Returns(p, [NoResult EXCEPT !.status = "ok"])
  /\ UNCHANGED <<cfg, now, started, op, data, calls,
                 schedVars>>

\* A mutant of isAuthenticated: a credential that can be refreshed counts
\* as a session, and is refreshed on the way.
isAuthenticated_Refreshing(p) ==
  /\ pc[p] = "isAuthenticated"
  /\ IF isTokenStillValid(store, now) \/ ~Truthy(store.refresh_token)
       THEN /\ Returns(p, [NoResult EXCEPT !.status = "ok",
                             !.isAuthenticated = isTokenStillValid(store, now)])
            /\ UNCHANGED calls
       ELSE /\ Locals(p, store, getClientId(cfg).value, Undefined, NoReq)
            /\ Goto(p, "refreshAccessToken")
            /\ calls' = Sent(p, "refresh")
  /\ UNCHANGED <<store, cfg, now, started, op, data,
                 schedVars>>

\* isAuthenticated: loadTokens, then isTokenStillValid.
isAuthenticated(p) ==
  /\ pc[p] = "isAuthenticated"
  /\ Returns(p, [NoResult EXCEPT !.status = "ok",
                   !.isAuthenticated = isTokenStillValid(store, now)])
  /\ UNCHANGED <<store, cfg, now, started, op, data, calls,
                 schedVars>>

\* A mutant of getAccessToken: a credential that holds a refresh token is
\* refreshed even while it is valid.
getAccessToken_Refreshing(p) ==
  /\ pc[p] = "getAccessToken"
  /\ LET cid == getClientId(cfg) IN
     IF ~cid.ok
       THEN Throws(p, cid.value)
       ELSE IF isTokenStillValid(store, now) /\ ~Truthy(store.refresh_token)
         THEN ReturnsToken(p, store.access_token)
         ELSE /\ Locals(p, store, cid.value, Undefined, NoReq)
              /\ Goto(p, IF store.stored /\ Truthy(store.refresh_token)
                           THEN "refreshAccessToken"
                           ELSE "startAuthFlowInternal")
  /\ UNCHANGED <<store, cfg, now, started, op, data, calls,
                 schedVars>>

\* getAccessToken up to its first request: getClientId, loadTokens, the
\* validity check, and the choice between refresh and the interactive flow.
getAccessToken(p) ==
  /\ pc[p] = "getAccessToken"
  /\ LET cid == getClientId(cfg) IN
     IF ~cid.ok
       THEN Throws(p, cid.value)
       ELSE IF isTokenStillValid(store, now)
         THEN ReturnsToken(p, store.access_token)
         ELSE /\ Locals(p, store, cid.value, Undefined, NoReq)
              /\ Goto(p, IF store.stored /\ Truthy(store.refresh_token)
                           THEN "refreshAccessToken"
                           ELSE "startAuthFlowInternal")
  /\ UNCHANGED <<store, cfg, now, started, op, data, calls,
                 schedVars>>

\* refreshAccessToken up to its fetch.  What it throws, getAccessToken
\* catches, and goes on to the interactive flow.
refreshAccessToken(p) ==
  /\ pc[p] = "refreshAccessToken"
  /\ LET secret == getClientSecret(cfg) IN
     IF ~Truthy(tokens[p].refresh_token) \/ ~secret.ok
       THEN /\ Goto(p, "startAuthFlowInternal")
            /\ UNCHANGED <<req, calls>>
       ELSE /\ req' = [req EXCEPT ![p] =
                         [kind |-> "token", grant_type |-> "refresh_token",
                          client_id |-> clientId[p],
                          client_secret |-> secret.value,
                          refresh_token |-> tokens[p].refresh_token]]
            /\ calls' = Sent(p, "refresh")
            /\ Goto(p, "refreshWait")
  /\ UNCHANGED <<store, cfg, now, started, op, tokens, clientId, codeVerifier,
                 data,
                 schedVars>>

\* A mutant of RefreshedTokens: the stored refresh token is not kept.
RefreshedTokens_Dropped(t, d, nowMs) ==
  Tokens(d.access_token, d.refresh_token, ExpiresAt(nowMs, d.expires_in))

\* A mutant of RefreshedTokens: the new access token is put into the record
\* that is in the store at the time of the write.
RefreshedTokens_Merged(t, d, nowMs) ==
  [store EXCEPT !.stored = TRUE, !.access_token = d.access_token]

\* The record refreshAccessToken builds from the response d.
RefreshedTokens(t, d, nowMs) ==
  Tokens(d.access_token,
         IF Truthy(d.refresh_token) THEN d.refresh_token ELSE t.refresh_token,
         ExpiresAt(nowMs, d.expires_in))

\* A mutant of refreshResponse: a refresh that fails is fatal.
refreshResponse_Fatal(p, d) ==
  /\ pc[p] = "refreshWait"
  /\ data' = [data EXCEPT ![p] = d]
  /\ IF ~d.ok
       THEN /\ Throws(p, "No se pudo refrescar el token de acceso.")
            /\ UNCHANGED store
       ELSE LET newTokens == RefreshedTokens(tokens[p], d, now) IN
            /\ store' = newTokens
            /\ ReturnsToken(p, newTokens.access_token)
  /\ UNCHANGED <<cfg, now, started, op, calls,
                 schedVars>>

\* The token endpoint answers the refresh request.
refreshResponse(p, d) ==
  /\ pc[p] = "refreshWait"
  /\ data' = [data EXCEPT ![p] = d]
  /\ IF ~d.ok
       THEN /\ Goto(p, "startAuthFlowInternal")
            /\ Locals(p, tokens[p], clientId[p], Undefined, NoReq)
            /\ UNCHANGED store
       ELSE LET newTokens == RefreshedTokens(tokens[p], d, now) IN
            /\ store' = newTokens
            /\ ReturnsToken(p, newTokens.access_token)
  /\ UNCHANGED <<cfg, now, started, op, calls,
                 schedVars>>

\* A mutant of startAuthFlow: with a valid credential in the store it
\* returns at once.
startAuthFlow_Cached(p) ==
  /\ pc[p] = "startAuthFlow"
  /\ LET cid == getClientId(cfg) IN
     IF ~cid.ok
       THEN Throws(p, cid.value)
       ELSE IF isTokenStillValid(store, now)
         THEN Returns(p, [NoResult EXCEPT !.status = "ok"])
         ELSE /\ Locals(p, NoTokens, cid.value, Undefined, NoReq)
              /\ Goto(p, "startAuthFlowInternal")
  /\ UNCHANGED <<store, cfg, now, started, op, data, calls,
                 schedVars>>

\* startAuthFlow: getClientId, then the interactive flow.
startAuthFlow(p) ==
  /\ pc[p] = "startAuthFlow"
  /\ LET cid == getClientId(cfg) IN
     IF ~cid.ok
       THEN Throws(p, cid.value)
       ELSE /\ Locals(p, NoTokens, cid.value, Undefined, NoReq)
            /\ Goto(p, "startAuthFlowInternal")
  /\ UNCHANGED <<store, cfg, now, started, op, data, calls,
                 schedVars>>

\* A mutant of startAuthFlowInternal: the client secret is put into the
\* authorization URL.
startAuthFlowInternal_Leaky(p, v) ==
  /\ pc[p] = "startAuthFlowInternal"
  /\ Locals(p, tokens[p], clientId[p], v,
            [kind |-> "authorize", client_id |-> clientId[p],
             client_secret |-> getClientSecret(cfg).value,
             redirect_uri |-> RedirectUri, response_type |-> "code",
             scope |-> SCOPES, access_type |-> "offline",
             prompt |-> "consent",
             code_challenge |-> createCodeChallenge(v),
             code_challenge_method |-> "S256"])
  /\ calls' = Sent(p, "launch")
  /\ Goto(p, "authWait")
  /\ UNCHANGED <<store, cfg, now, started, op, data,
                 schedVars>>

\* startAuthFlowInternal up to launchWebAuthFlow: the verifier, its
\* challenge and the authorization URL.
startAuthFlowInternal(p, v) ==
  /\ pc[p] = "startAuthFlowInternal"
  /\ Locals(p, tokens[p], clientId[p], v,
            [kind |-> "authorize", client_id |-> clientId[p],
             redirect_uri |-> RedirectUri, response_type |-> "code",
             scope |-> SCOPES, access_type |-> "offline",
             prompt |-> "consent",
             code_challenge |-> createCodeChallenge(v),
             code_challenge_method |-> "S256"])
  /\ calls' = Sent(p, "launch")
  /\ Goto(p, "authWait")
  /\ UNCHANGED <<store, cfg, now, started, op, data,
                 schedVars>>

\* launchWebAuthFlow calls back; with a code, exchangeCodeForTokens runs up
\* to its fetch.
authRedirect(p, outcome) ==
  /\ pc[p] = "authWait"
  /\ LET secret == getClientSecret(cfg) IN
     CASE outcome = "lastError" ->
            /\ Throws(p, "chrome.runtime.lastError")
            /\ UNCHANGED calls
       [] outcome = "noRedirect" ->
            /\ Throws(p, "No se recibio redirectUrl de Google.")
            /\ UNCHANGED calls
       [] outcome = "noCode" ->
            /\ Throws(p, "No se recibio 'code' en la respuesta de Google.")
            /\ UNCHANGED calls
       [] outcome = "code" ->
            IF ~secret.ok
              THEN /\ Throws(p, secret.value)
                   /\ UNCHANGED calls
              ELSE /\ Locals(p, tokens[p], clientId[p], codeVerifier[p],
                             [kind |-> "token",
                              grant_type |-> "authorization_code",
                              client_id |-> clientId[p],
                              client_secret |-> secret.value,
                              code |-> AuthCode,
                              redirect_uri |-> RedirectUri,
                              code_verifier |-> codeVerifier[p]])
                   /\ calls' = Sent(p, "exchange")
                   /\ Goto(p, "exchangeWait")
  /\ UNCHANGED <<store, cfg, now, started, op, data,
                 schedVars>>

\* A mutant of ExchangedTokens: the stored refresh token is kept when the
\* response has none.
ExchangedTokens_Keeping(d, nowMs) ==
  Tokens(d.access_token,
         IF Truthy(d.refresh_token) THEN d.refresh_token
                                    ELSE store.refresh_token,
         ExpiresAt(nowMs, d.expires_in))

\* The record exchangeCodeForTokens builds from the response d.
ExchangedTokens(d, nowMs) ==
  Tokens(d.access_token, d.refresh_token, ExpiresAt(nowMs, d.expires_in))

\* A mutant of exchangeResponse: the old credential is discarded before the
\* exchange is known to have succeeded.
exchangeResponse_Clearing(p, d) ==
  /\ pc[p] = "exchangeWait"
  /\ data' = [data EXCEPT ![p] = d]
  /\ IF ~d.ok
       THEN /\ Throws(p, "No se pudo obtener el token de Google.")
            /\ store' = NoTokens
       ELSE LET t == ExchangedTokens(d, now) IN
            /\ store' = t
            /\ ReturnsFromFlow(p, t)
  /\ UNCHANGED <<cfg, now, started, op, calls,
                 schedVars>>

\* The token endpoint answers the code exchange.
exchangeResponse(p, d) ==
  /\ pc[p] = "exchangeWait"
  /\ data' = [data EXCEPT ![p] = d]
  /\ IF ~d.ok
       THEN /\ Throws(p, "No se pudo obtener el token de Google.")
            /\ UNCHANGED store
       ELSE LET t == ExchangedTokens(d, now) IN
            /\ store' = t
            /\ ReturnsFromFlow(p, t)
  /\ UNCHANGED <<cfg, now, started, op, calls,
                 schedVars>>

\* Time passes.
Tick ==
  /\ now < StartMs + MaxTicks * TickMs
  /\ now' = now + TickMs
  /\ UNCHANGED <<store, cfg, started, pc, op, tokens, clientId, codeVerifier,
                 req, data, calls, result, accessToken, schedVars>>

\* ------------------------------------------------------------ scheduler.js
\* A time "HH:MM" is the pair <<HH, MM>>; the empty string is <<>>.  An
\* instant of a slot or of a busy period is in minutes on the browser's
\* local time line: day * 1440 + minutes since midnight.
MinutesPerDay == 24 * 60

toMinutes(hhmm) == hhmm[1] * 60 + hhmm[2]

\* A mutant of maxTimeStr: only the hours are compared.
maxTimeStr_Hours(t1, t2) == IF t1[1] >= t2[1] THEN t1 ELSE t2

maxTimeStr(t1, t2) == IF toMinutes(t1) >= toMinutes(t2) THEN t1 ELSE t2

minTimeStr(t1, t2) == IF toMinutes(t1) <= toMinutes(t2) THEN t1 ELSE t2

\* new Date(`${dateStr}T${pad(h)}:${pad(m)}:00`): local time.
LocalInstant(dateStr, hhmm) == dateStr * MinutesPerDay + toMinutes(hhmm)

\* A mutant of SlotLoop: without `if (slotEnd > end) break`.
RECURSIVE SlotLoop_NoBreak(_, _, _)
SlotLoop_NoBreak(cur, end, delta) ==
  IF cur < end
    THEN <<[start |-> cur, end |-> cur + delta]>>
           \o SlotLoop_NoBreak(cur + delta, end, delta)
    ELSE <<>>

\* A mutant of SlotLoop: the last slot is cut at the end of the range.
RECURSIVE SlotLoop_Truncating(_, _, _)
SlotLoop_Truncating(cur, end, delta) ==
  IF cur < end
    THEN <<[start |-> cur,
            end |-> IF cur + delta > end THEN end ELSE cur + delta]>>
           \o SlotLoop_Truncating(cur + delta, end, delta)
    ELSE <<>>

\* The while loop of createTimeSlots, for a positive delta.
RECURSIVE SlotLoop(_, _, _)
SlotLoop(cur, end, delta) ==
  IF cur < end /\ ~(cur + delta > end)
    THEN <<[start |-> cur, end |-> cur + delta]>>
           \o SlotLoop(cur + delta, end, delta)
    ELSE <<>>

createTimeSlots(dateStr, startStr, endStr, durationMinutes) ==
  SlotLoop(LocalInstant(dateStr, startStr), LocalInstant(dateStr, endStr),
           durationMinutes)

\* A mutant of overlaps: only a slot that starts inside a busy period.
overlaps_StartOnly(aStart, aEnd, bStart, bEnd) ==
  bStart <= aStart /\ aStart < bEnd

overlaps(aStart, aEnd, bStart, bEnd) == aStart < bEnd /\ bStart < aEnd

\* A mutant of filterFreeSlots: a slot that touches a busy period is dropped.
filterFreeSlots_Closed(slots, busy) ==
  SelectSeq(slots,
            LAMBDA slot :
              ~\E i \in 1..Len(busy) :
                 slot.start <= busy[i].end /\ busy[i].start <= slot.end)

\* A mutant of filterFreeSlots: only the first busy period is looked at.
filterFreeSlots_FirstBusy(slots, busy) ==
  SelectSeq(slots,
            LAMBDA slot :
              ~\E i \in 1..Len(busy) :
                 i = 1 /\ overlaps(slot.start, slot.end,
                                   busy[i].start, busy[i].end))

filterFreeSlots(slots, busy) ==
  SelectSeq(slots,
            LAMBDA slot :
              ~\E i \in 1..Len(busy) :
                 overlaps(slot.start, slot.end, busy[i].start, busy[i].end))

\* ------------------------------------------------------------ Date
\* A Date of runScheduler is an instant in hours of UTC, hour 0 being the
\* UTC midnight that begins day 0; NaN (an invalid Date) is -1.  The browser's
\* zone tz is tz.before hours from UTC up to the instant tz.at and tz.after
\* from then on.
NaN == 0 - 1

\* new Date('YYYY-MM-DD'): UTC midnight of that day; a string that is no date
\* (the day -1 of the model) gives an invalid Date.
ParseDate(d) == IF d < 1 THEN NaN ELSE d * 24

LocalOffset(z, x) == IF x >= z.at THEN z.after ELSE z.before

\* toISOString().slice(0, 10): the UTC day.
toISODate(x) == x \div 24

\* toDateString(): the local day.
toDateString(z, x) == (x + LocalOffset(z, x)) \div 24

\* current.setDate(current.getDate() + 1): the same local time of day on the
\* next local day.
NextDay(z, x) ==
  LET wall == x + LocalOffset(z, x) + 24
      late == wall - z.after
  IN  IF late >= z.at THEN late ELSE wall - z.before

\* The zones of the model: no change of offset (America/Bogota), and
\* America/New_York on the day its clocks go forward (02:00 EST is 07:00 UTC)
\* and on the day they go back (02:00 EDT is 06:00 UTC).
TimeZones ==
  {[before |-> 0 - 5, after |-> 0 - 5, at |-> 0],
   [before |-> 0 - 5, after |-> 0 - 4, at |-> DstDay * 24 + 7],
   [before |-> 0 - 4, after |-> 0 - 5, at |-> DstDay * 24 + 6]}

\* ------------------------------------------------------------ background.js
Days == 1..MaxDay
TimeStrs == {<<9, 0>>, <<10, 0>>, <<11, 0>>}

Request(n, ds, de, ws, we, ts, te) ==
  [eventName |-> n, eventColor |-> "1", dateStart |-> ds, dateEnd |-> de,
   workdayStart |-> ws, workdayEnd |-> we, taskStart |-> ts, taskEnd |-> te]

\* The requests with every field filled in.
FullRequests ==
  {Request("Focus", ds, de, ws, we, ts, te) :
     ds \in Days, de \in Days, ws \in TimeStrs, we \in TimeStrs,
     ts \in TimeStrs, te \in TimeStrs}

\* Requests with a field left empty, or with a date that is no date.
BrokenRequests ==
  {Request(Undefined, 1, 2, <<9, 0>>, <<11, 0>>, <<9, 0>>, <<11, 0>>),
   Request("Focus", 0, 2, <<9, 0>>, <<11, 0>>, <<9, 0>>, <<11, 0>>),
   Request("Focus", 1, 0, <<9, 0>>, <<11, 0>>, <<9, 0>>, <<11, 0>>),
   Request("Focus", 1, 2, <<>>, <<11, 0>>, <<9, 0>>, <<11, 0>>),
   Request("Focus", 1, 2, <<9, 0>>, <<>>, <<9, 0>>, <<11, 0>>),
   Request("Focus", 1, 2, <<9, 0>>, <<11, 0>>, <<>>, <<11, 0>>),
   Request("Focus", 1, 2, <<9, 0>>, <<11, 0>>, <<9, 0>>, <<>>),
   Request("Focus", 0 - 1, 2, <<9, 0>>, <<11, 0>>, <<9, 0>>, <<11, 0>>),
   Request("Focus", 1, 0 - 1, <<9, 0>>, <<11, 0>>, <<9, 0>>, <<11, 0>>)}

\* The requests explored when getAccessToken has to go to the network.
FewRequests ==
  BrokenRequests
  \cup
  {Request("Focus", ds, de, <<9, 0>>, <<11, 0>>, <<10, 0>>, <<11, 0>>) :
     ds \in Days, de \in Days}

\* One day, workday 09:00-17:00, task 09:00-12:00.
ScenarioRequests ==
  {Request("Focus", 1, 1, <<9, 0>>, <<17, 0>>, <<9, 0>>, <<12, 0>>)}

\* One day with a range of 20 minutes, in which no slot fits.
NoSlotRequests ==
  {Request("Focus", 1, 1, <<9, 0>>, <<9, 20>>, <<9, 0>>, <<9, 20>>)}

NoRequest == Request(Undefined, 0, 0, <<>>, <<>>, <<>>, <<>>)

\* parseInt(s, 10) of the strings of the model.
ParseInt(str) ==
  CASE str = "30" -> 30
    [] str = "45" -> 45
    [] str = "60" -> 60
    [] str = "0" -> 0
    [] str = "-15" -> 0 - 15

Period(day, from, to) ==
  [start |-> LocalInstant(day, from), end |-> LocalInstant(day, to)]

\* What the calendar may answer to the busy query of a day: a non-success
\* status, or the busy periods of its calendars.<calendarId>.busy.
BusyResponses(day) ==
  {[ok |-> FALSE, busy |-> <<>>],
   [ok |-> TRUE, busy |-> <<>>],
   [ok |-> TRUE, busy |-> <<Period(day, <<9, 30>>, <<10, 0>>)>>],
   [ok |-> TRUE, busy |-> <<Period(day, <<10, 0>>, <<10, 30>>)>>],
   [ok |-> TRUE, busy |-> <<Period(day, <<8, 0>>, <<9, 0>>),
                            Period(day, <<10, 15>>, <<11, 0>>)>>]}

\* The locals of p's runScheduler frame.
Frame(p, cur, ts, tc, ds, bp, fs, ix) ==
  /\ current' = [current EXCEPT ![p] = cur]
  /\ totalSlots' = [totalSlots EXCEPT ![p] = ts]
  /\ totalCreated' = [totalCreated EXCEPT ![p] = tc]
  /\ daySlots' = [daySlots EXCEPT ![p] = ds]
  /\ busyPeriods' = [busyPeriods EXCEPT ![p] = bp]
  /\ freeSlots' = [freeSlots EXCEPT ![p] = fs]
  /\ slotIdx' = [slotIdx EXCEPT ![p] = ix]

\* runScheduler is left: its locals are gone.
NoFrame(p) == Frame(p, 0, 0, 0, <<>>, <<>>, <<>>, 0)

\* runScheduler's cfg before loadConfig has answered.
NoConfig == [loaded |-> FALSE, calendarId |-> Undefined, timeZone |-> Undefined]

\* The credentials in the store when a RUN_SCHEDULER message arrives.
SchedStores ==
  {Tokens("AT-old", "RT-old", StartMs + 90 * 1000),
   Tokens("AT-old", "RT-old", StartMs + 30 * 1000)}

\* The requests explored with the credential st in the store and the
\* configuration c.
Requests(st, c) ==
  IF isTokenStillValid(st, StartMs) /\ c \in ConfigChoices
    THEN FullRequests \cup BrokenRequests \cup ScenarioRequests
           \cup NoSlotRequests
    ELSE FewRequests

\* The listener receives a RUN_SCHEDULER message and calls runScheduler.
Receive(p) ==
  /\ pc[p] = "idle"
  /\ \E pl \in Requests(store, cfg) : payload' = [payload EXCEPT ![p] = pl]
  /\ op' = [op EXCEPT ![p] = "runScheduler"]
  /\ pc' = [pc EXCEPT ![p] = "runScheduler"]
  /\ started' = started + 1
  /\ UNCHANGED <<store, cfg, now, dayStartStr, dayEndStr,
                 tokens, clientId, codeVerifier, req, data,
                 calls, result, accessToken, tz, slotMinutes, config, current,
                 totalSlots, totalCreated, daySlots, busyPeriods, freeSlots,
                 slotIdx, queries, events>>

\* A mutant of runScheduler: the event name is not checked.
runScheduler_NoNameCheck(p) ==
  /\ pc[p] = "runScheduler"
  /\ LET pl == payload[p] IN
     IF pl.dateStart = 0 \/ pl.dateEnd = 0
       THEN /\ Throws(p, "Debes indicar fecha inicio y fin.")
            /\ UNCHANGED <<slotMinutes, config>>
     ELSE IF pl.workdayStart = <<>> \/ pl.workdayEnd = <<>>
       THEN /\ Throws(p, "Debes indicar el horario laboral.")
            /\ UNCHANGED <<slotMinutes, config>>
     ELSE IF pl.taskStart = <<>> \/ pl.taskEnd = <<>>
       THEN /\ Throws(p, "Debes indicar el rango de la tarea.")
            /\ UNCHANGED <<slotMinutes, config>>
     ELSE /\ slotMinutes' =
               [slotMinutes EXCEPT ![p] =
                  ParseInt(IF Truthy(cfg.slotMinutes)
                             THEN cfg.slotMinutes ELSE "30")]
          /\ config' =
               [config EXCEPT ![p] =
                  [loaded |-> TRUE,
                   calendarId |-> IF Truthy(cfg.calendarId)
                                    THEN cfg.calendarId ELSE "primary",
                   timeZone |-> IF Truthy(cfg.timezone)
                                  THEN cfg.timezone ELSE "America/Bogota"]]
          /\ Goto(p, "getAccessToken")
          /\ UNCHANGED <<tokens, clientId, codeVerifier, req>>
  /\ UNCHANGED <<store, cfg, now, dayStartStr, dayEndStr,
                 started, op, data, calls, tz, payload,
                 current, totalSlots, totalCreated, daySlots, busyPeriods,
                 freeSlots, slotIdx, queries, events>>

\* A mutant of runScheduler: it goes to its dates without an access token.
runScheduler_NoToken(p) ==
  /\ pc[p] = "runScheduler"
  /\ LET pl == payload[p] IN
     IF ~Truthy(pl.eventName)
       THEN /\ Throws(p, "Falta el nombre del evento.")
            /\ UNCHANGED <<slotMinutes, config>>
     ELSE IF pl.dateStart = 0 \/ pl.dateEnd = 0
       THEN /\ Throws(p, "Debes indicar fecha inicio y fin.")
            /\ UNCHANGED <<slotMinutes, config>>
     ELSE IF pl.workdayStart = <<>> \/ pl.workdayEnd = <<>>
       THEN /\ Throws(p, "Debes indicar el horario laboral.")
            /\ UNCHANGED <<slotMinutes, config>>
     ELSE IF pl.taskStart = <<>> \/ pl.taskEnd = <<>>
       THEN /\ Throws(p, "Debes indicar el rango de la tarea.")
            /\ UNCHANGED <<slotMinutes, config>>
     ELSE /\ slotMinutes' =
               [slotMinutes EXCEPT ![p] =
                  ParseInt(IF Truthy(cfg.slotMinutes)
                             THEN cfg.slotMinutes ELSE "30")]
          /\ config' =
               [config EXCEPT ![p] =
                  [loaded |-> TRUE,
                   calendarId |-> IF Truthy(cfg.calendarId)
                                    THEN cfg.calendarId ELSE "primary",
                   timeZone |-> IF Truthy(cfg.timezone)
                                  THEN cfg.timezone ELSE "America/Bogota"]]
          /\ Goto(p, "parseDates")
          /\ UNCHANGED <<tokens, clientId, codeVerifier, req>>
  /\ UNCHANGED <<store, cfg, now, dayStartStr, dayEndStr,
                 started, op, data, calls, tz, payload,
                 current, totalSlots, totalCreated, daySlots, busyPeriods,
                 freeSlots, slotIdx, queries, events>>

\* runScheduler up to getAccessToken: the required fields, then loadConfig.
runScheduler(p) ==
  /\ pc[p] = "runScheduler"
  /\ LET pl == payload[p] IN
     IF ~Truthy(pl.eventName)
       THEN /\ Throws(p, "Falta el nombre del evento.")
            /\ UNCHANGED <<slotMinutes, config>>
     ELSE IF pl.dateStart = 0 \/ pl.dateEnd = 0
       THEN /\ Throws(p, "Debes indicar fecha inicio y fin.")
            /\ UNCHANGED <<slotMinutes, config>>
     ELSE IF pl.workdayStart = <<>> \/ pl.workdayEnd = <<>>
       THEN /\ Throws(p, "Debes indicar el horario laboral.")
            /\ UNCHANGED <<slotMinutes, config>>
     ELSE IF pl.taskStart = <<>> \/ pl.taskEnd = <<>>
       THEN /\ Throws(p, "Debes indicar el rango de la tarea.")
            /\ UNCHANGED <<slotMinutes, config>>
     ELSE /\ slotMinutes' =
               [slotMinutes EXCEPT ![p] =
                  ParseInt(IF Truthy(cfg.slotMinutes)
                             THEN cfg.slotMinutes ELSE "30")]
          /\ config' =
               [config EXCEPT ![p] =
                  [loaded |-> TRUE,
                   calendarId |-> IF Truthy(cfg.calendarId)
                                    THEN cfg.calendarId ELSE "primary",
                   timeZone |-> IF Truthy(cfg.timezone)
                                  THEN cfg.timezone ELSE "America/Bogota"]]
          /\ Goto(p, "getAccessToken")
          /\ UNCHANGED <<tokens, clientId, codeVerifier, req>>
  /\ UNCHANGED <<store, cfg, now, dayStartStr, dayEndStr,
                 started, op, data, calls, tz, payload,
                 current, totalSlots, totalCreated, daySlots, busyPeriods,
                 freeSlots, slotIdx, queries, events>>

\* runScheduler from the access token to its loop: the two dates.
startLoop(p) ==
  /\ pc[p] = "parseDates"
  /\ LET startDate == ParseDate(payload[p].dateStart)
         endDate == ParseDate(payload[p].dateEnd)
     IN  IF startDate = NaN \/ endDate = NaN
           THEN /\ Throws(p, "Formato de fecha invalido.")
                /\ UNCHANGED current
         ELSE IF endDate < startDate
           THEN /\ Throws(p, "La fecha fin no puede ser menor a la fecha inicio.")
                /\ UNCHANGED current
         ELSE /\ current' = [current EXCEPT ![p] = startDate]
              /\ Goto(p, "dayLoop")
              /\ UNCHANGED <<tokens, clientId, codeVerifier, req>>
  /\ UNCHANGED <<store, cfg, now, dayStartStr, dayEndStr,
                 started, op, data, calls, tz, payload,
                 slotMinutes, config, totalSlots, totalCreated, daySlots,
                 busyPeriods, freeSlots, slotIdx, queries, events>>

\* The effective range of the day of `cur`: dayStartStr and dayEndStr.
DayRange(pl, z, cur) ==
  LET startDate == ParseDate(pl.dateStart)
      endDate == ParseDate(pl.dateEnd)
      sameDay == toDateString(z, startDate) = toDateString(z, endDate)
      isFirst == toDateString(z, cur) = toDateString(z, startDate)
      isLast == toDateString(z, cur) = toDateString(z, endDate)
  IN  IF sameDay
        THEN [start |-> maxTimeStr(pl.workdayStart, pl.taskStart),
              end |-> minTimeStr(pl.workdayEnd, pl.taskEnd)]
      ELSE IF isFirst
        THEN [start |-> maxTimeStr(pl.workdayStart, pl.taskStart),
              end |-> pl.workdayEnd]
      ELSE IF isLast
        THEN [start |-> pl.workdayStart,
              end |-> minTimeStr(pl.workdayEnd, pl.taskEnd)]
      ELSE [start |-> pl.workdayStart, end |-> pl.workdayEnd]

isValidRange(startStr, endStr) == toMinutes(endStr) > toMinutes(startStr)

\* A mutant of BusyQuery: the token is read from the store for each query.
BusyQuery_StoredToken(p, dateStr, range) ==
  [kind |-> "freeBusy", bearer |-> store.access_token,
   calendarId |-> config[p].calendarId,
   timeMin |-> [date |-> dateStr, time |-> range.start, offset |-> 0 - 5],
   timeMax |-> [date |-> dateStr, time |-> range.end, offset |-> 0 - 5],
   timeZone |-> config[p].timeZone]

\* The request getBusyPeriodsForDay sends.
BusyQuery(p, dateStr, range) ==
  [kind |-> "freeBusy", bearer |-> accessToken[p],
   calendarId |-> config[p].calendarId,
   timeMin |-> [date |-> dateStr, time |-> range.start, offset |-> 0 - 5],
   timeMax |-> [date |-> dateStr, time |-> range.end, offset |-> 0 - 5],
   timeZone |-> config[p].timeZone]

\* The request createEvent sends for a slot.
EventRequest(p, slot) ==
  [kind |-> "events.insert", bearer |-> accessToken[p],
   calendarId |-> config[p].calendarId,
   summary |-> payload[p].eventName, start |-> slot.start, end |-> slot.end,
   timeZone |-> config[p].timeZone,
   colorId |-> payload[p].eventColor]

\* One turn of the while loop, up to its busy query: the end of the run, a
\* skipped day, or the slots of the day and the query.  With a slot duration
\* that is not positive createTimeSlots is entered and its loop has no exit.
dayLoop(p) ==
  /\ pc[p] = "dayLoop"
  /\ LET cur == current[p]
         dateStr == toISODate(cur)
         range == DayRange(payload[p], tz, cur)
         slots == createTimeSlots(dateStr, range.start, range.end,
                                  slotMinutes[p])
     IN  IF ~(cur <= ParseDate(payload[p].dateEnd))
           THEN /\ Returns(p, [NoResult EXCEPT !.status = "ok",
                                 !.message = <<"Bloques totales: ",
                                               totalSlots[p],
                                               ". Eventos creados: ",
                                               totalCreated[p], ".">>,
                                 !.totalSlots = totalSlots[p],
                                 !.totalCreated = totalCreated[p]])
                /\ NoFrame(p)
                /\ UNCHANGED <<calls, dayStartStr, dayEndStr>>
         ELSE /\ dayStartStr' = [dayStartStr EXCEPT ![p] = range.start]
              /\ dayEndStr' = [dayEndStr EXCEPT ![p] = range.end]
              /\ IF ~isValidRange(range.start, range.end)
                   THEN /\ Frame(p, NextDay(tz, cur), totalSlots[p],
                                 totalCreated[p], <<>>, <<>>, <<>>, 0)
                        /\ Goto(p, "dayLoop")
                        /\ UNCHANGED <<tokens, clientId, codeVerifier, req,
                                       calls>>
                 ELSE IF slotMinutes[p] <= 0
                   THEN /\ Frame(p, cur, totalSlots[p], totalCreated[p],
                                 <<>>, <<>>, <<>>, 0)
                        /\ Goto(p, "createTimeSlots")
                        /\ UNCHANGED <<tokens, clientId, codeVerifier, req,
                                       calls>>
                 ELSE /\ Frame(p, cur, totalSlots[p] + Len(slots),
                               totalCreated[p], slots, <<>>, <<>>, 0)
                      /\ Locals(p, NoTokens, Undefined, Undefined,
                                BusyQuery(p, dateStr, range))
                      /\ calls' = Sent(p, "busy")
                      /\ Goto(p, "busyWait")
  /\ UNCHANGED <<store, cfg, now, started, op, data, tz, payload, slotMinutes,
                 config, queries, events>>

\* The head of a turn of the while loop of createTimeSlots when deltaMs is
\* not positive: current is before end, and slotEnd, not after current, is
\* not after end, so the loop is not left.
createTimeSlotsLoop(p) ==
  /\ pc[p] = "createTimeSlots"
  /\ pc' = [pc EXCEPT ![p] = "createTimeSlots.push"]
  /\ UNCHANGED <<store, cfg, now, started, op, tokens, clientId, codeVerifier,
                 req, data, calls, result, accessToken, schedVars>>

\* The rest of that turn: the slot is pushed and current is set to slotEnd,
\* which is before end again.  Of the slots pushed the model keeps the first
\* MaxTurns.
createTimeSlotsPush(p) ==
  /\ pc[p] = "createTimeSlots.push"
  /\ pc' = [pc EXCEPT ![p] = "createTimeSlots"]
  /\ LET n == Len(daySlots[p])
         cur == IF n = 0
                  THEN LocalInstant(toISODate(current[p]), dayStartStr[p])
                  ELSE daySlots[p][n].end
     IN  daySlots' = [daySlots EXCEPT ![p] =
                        IF n < MaxTurns
                          THEN Append(@, [start |-> cur,
                                          end |-> cur + slotMinutes[p]])
                          ELSE @]
  /\ UNCHANGED <<store, cfg, now, started, op, tokens, clientId, codeVerifier,
                 req, data, calls, result, accessToken, tz, payload,
                 slotMinutes, config, current, totalSlots, totalCreated,
                 busyPeriods, freeSlots, slotIdx, dayStartStr, dayEndStr,
                 queries, events>>

\* The calendar answers the busy query: the free slots, and the first
\* createEvent.
busyResponse(p, r) ==
  /\ pc[p] = "busyWait"
  /\ LET free == filterFreeSlots(daySlots[p], r.busy) IN
     IF ~r.ok
       THEN /\ Throws(p, "Error al consultar la disponibilidad en Google Calendar.")
            /\ NoFrame(p)
            /\ UNCHANGED <<calls, queries>>
     ELSE /\ queries' = [queries EXCEPT ![p] =
                           Append(@, [day |-> toISODate(current[p]),
                                      timeMin |-> req[p].timeMin,
                                      timeMax |-> req[p].timeMax,
                                      slots |-> daySlots[p],
                                      busy |-> r.busy,
                                      seen |-> Len(events)])]
          /\ IF free = <<>>
               THEN /\ Frame(p, NextDay(tz, current[p]), totalSlots[p],
                             totalCreated[p], <<>>, <<>>, <<>>, 0)
                    /\ Locals(p, NoTokens, Undefined, Undefined, NoReq)
                    /\ Goto(p, "dayLoop")
                    /\ UNCHANGED calls
               ELSE /\ Frame(p, current[p], totalSlots[p], totalCreated[p],
                             daySlots[p], r.busy, free, 1)
                    /\ Locals(p, NoTokens, Undefined, Undefined,
                              EventRequest(p, free[1]))
                    /\ calls' = Sent(p, "event")
                    /\ Goto(p, "eventWait")
  /\ UNCHANGED <<store, cfg, now, dayStartStr, dayEndStr,
                 started, op, data, tz, payload, slotMinutes,
                 config,
                 events>>

\* A mutant of eventResponse: the creation looks at the calendar again, and
\* makes no event for a slot in which an event has been created meanwhile.
eventResponse_Rechecking(p, ok) ==
  /\ pc[p] = "eventWait"
  /\ LET slot == freeSlots[p][slotIdx[p]]
         taken == \E i \in 1..Len(events) :
                    overlaps(slot.start, slot.end,
                             events[i].start, events[i].end)
         made == IF taken THEN 0 ELSE 1
     IN
     IF ~ok
       THEN /\ Throws(p, "Error al crear un evento en Google Calendar.")
            /\ NoFrame(p)
            /\ UNCHANGED <<calls, events>>
     ELSE /\ events' = IF taken
                         THEN events
                         ELSE Append(events,
                                     [by |-> p, start |-> slot.start,
                                      end |-> slot.end,
                                      day |-> toISODate(current[p]),
                                      query |-> Len(queries[p])])
          /\ IF slotIdx[p] < Len(freeSlots[p])
               THEN /\ Frame(p, current[p], totalSlots[p],
                             totalCreated[p] + made, daySlots[p],
                             busyPeriods[p], freeSlots[p], slotIdx[p] + 1)
                    /\ Locals(p, NoTokens, Undefined, Undefined,
                              EventRequest(p, freeSlots[p][slotIdx[p] + 1]))
                    /\ calls' = Sent(p, "event")
                    /\ Goto(p, "eventWait")
               ELSE /\ Frame(p, NextDay(tz, current[p]), totalSlots[p],
                             totalCreated[p] + made, <<>>, <<>>, <<>>, 0)
                    /\ Locals(p, NoTokens, Undefined, Undefined, NoReq)
                    /\ Goto(p, "dayLoop")
                    /\ UNCHANGED calls
  /\ UNCHANGED <<store, cfg, now, dayStartStr, dayEndStr,
                 started, op, data, tz, payload, slotMinutes,
                 config,
                 queries>>

\* A mutant of eventResponse: a creation that fails is passed over, and the
\* run goes on with the next free slot or the next day.
eventResponse_Skipping(p, ok) ==
  /\ pc[p] = "eventWait"
  /\ LET slot == freeSlots[p][slotIdx[p]]
         made == IF ok THEN 1 ELSE 0
     IN  /\ events' = IF ok
                        THEN Append(events,
                                    [by |-> p, start |-> slot.start,
                                     end |-> slot.end,
                                     day |-> toISODate(current[p]),
                                     query |-> Len(queries[p])])
                        ELSE events
         /\ IF slotIdx[p] < Len(freeSlots[p])
              THEN /\ Frame(p, current[p], totalSlots[p],
                            totalCreated[p] + made, daySlots[p],
                            busyPeriods[p], freeSlots[p], slotIdx[p] + 1)
                   /\ Locals(p, NoTokens, Undefined, Undefined,
                             EventRequest(p, freeSlots[p][slotIdx[p] + 1]))
                   /\ calls' = Sent(p, "event")
                   /\ Goto(p, "eventWait")
              ELSE /\ Frame(p, NextDay(tz, current[p]), totalSlots[p],
                            totalCreated[p] + made, <<>>, <<>>, <<>>, 0)
                   /\ Locals(p, NoTokens, Undefined, Undefined, NoReq)
                   /\ Goto(p, "dayLoop")
                   /\ UNCHANGED calls
  /\ UNCHANGED <<store, cfg, now, dayStartStr, dayEndStr,
                 started, op, data, tz, payload, slotMinutes,
                 config,
                 queries>>

\* The calendar answers createEvent: the next free slot, or the next day.
eventResponse(p, ok) ==
  /\ pc[p] = "eventWait"
  /\ LET slot == freeSlots[p][slotIdx[p]] IN
     IF ~ok
       THEN /\ Throws(p, "Error al crear un evento en Google Calendar.")
            /\ NoFrame(p)
            /\ UNCHANGED <<calls, events>>
     ELSE /\ events' = Append(events,
                              [by |-> p, start |-> slot.start,
                               end |-> slot.end,
                               day |-> toISODate(current[p]),
                               query |-> Len(queries[p])])
          /\ IF slotIdx[p] < Len(freeSlots[p])
               THEN /\ Frame(p, current[p], totalSlots[p],
                             totalCreated[p] + 1, daySlots[p], busyPeriods[p],
                             freeSlots[p], slotIdx[p] + 1)
                    /\ Locals(p, NoTokens, Undefined, Undefined,
                              EventRequest(p, freeSlots[p][slotIdx[p] + 1]))
                    /\ calls' = Sent(p, "event")
                    /\ Goto(p, "eventWait")
               ELSE /\ Frame(p, NextDay(tz, current[p]), totalSlots[p],
                             totalCreated[p] + 1, <<>>, <<>>, <<>>, 0)
                    /\ Locals(p, NoTokens, Undefined, Undefined, NoReq)
                    /\ Goto(p, "dayLoop")
                    /\ UNCHANGED calls
  /\ UNCHANGED <<store, cfg, now, dayStartStr, dayEndStr,
                 started, op, data, tz, payload, slotMinutes,
                 config,
                 queries>>

AuthStep ==
  \/ \E p \in Procs : clearTokens(p)
  \/ \E p \in Procs : isAuthenticated(p)
  \/ \E p \in Procs : getAccessToken(p)
  \/ \E p \in Procs : refreshAccessToken(p)
  \/ \E p \in Procs : \E d \in TokenResponses(p) : refreshResponse(p, d)
  \/ \E p \in Procs : startAuthFlow(p)
  \/ \E p \in Procs : \E v \in Verifiers : startAuthFlowInternal(p, v)
  \/ \E p \in Procs : \E o \in RedirectOutcomes : authRedirect(p, o)
  \/ \E p \in Procs : \E d \in TokenResponses(p) : exchangeResponse(p, d)

\* The scheduler's variables before any message.
SchedIdle ==
  /\ accessToken = [p \in Procs |-> Undefined]
  /\ payload = [p \in Procs |-> NoRequest]
  /\ slotMinutes = [p \in Procs |-> 0]
  /\ config = [p \in Procs |-> NoConfig]
  /\ current = [p \in Procs |-> 0]
  /\ totalSlots = [p \in Procs |-> 0]
  /\ totalCreated = [p \in Procs |-> 0]
  /\ daySlots = [p \in Procs |-> <<>>]
  /\ busyPeriods = [p \in Procs |-> <<>>]
  /\ freeSlots = [p \in Procs |-> <<>>]
  /\ slotIdx = [p \in Procs |-> 0]
  /\ dayStartStr = [p \in Procs |-> <<>>]
  /\ dayEndStr = [p \in Procs |-> <<>>]
  /\ queries = [p \in Procs |-> <<>>]
  /\ events = <<>>

vars == <<authVars, schedVars>>

\* ------------------------------------------------------------ Spec
\* The public API of auth.js under two concurrent callers.
Init ==
  /\ AuthInit
  /\ SchedIdle
  /\ tz \in {z \in TimeZones : z.before = z.after}

Next ==
  \/ \E p \in Procs : \E o \in ApiOps : Call(p, o)
  \/ AuthStep
  \/ Tick

Spec == Init /\ [][Next]_vars

\* ------------------------------------------------------------ TokenSpec
\* Two concurrent callers of getAccessToken alone, each of its steps taken
\* in the end: the token endpoint and the interactive flow answer every
\* request.
TokenStep ==
  \/ \E p \in Procs : getAccessToken(p)
  \/ \E p \in Procs : refreshAccessToken(p)
  \/ \E p \in Procs : \E d \in TokenResponses(p) : refreshResponse(p, d)
  \/ \E p \in Procs : \E v \in Verifiers : startAuthFlowInternal(p, v)
  \/ \E p \in Procs : \E o \in RedirectOutcomes : authRedirect(p, o)
  \/ \E p \in Procs : \E d \in TokenResponses(p) : exchangeResponse(p, d)

TokenNext ==
  \/ \E p \in Procs : Call(p, "getAccessToken")
  \/ TokenStep
  \/ Tick

TokenSpec == Init /\ [][TokenNext]_vars /\ WF_vars(TokenStep)

\* ------------------------------------------------------------ SchedSpec
\* One RUN_SCHEDULER message handled by the background listener.
SchedInit ==
  /\ AuthIdle
  /\ SchedIdle
  /\ store \in SchedStores
  /\ cfg \in ConfigChoices \cup SlotConfigs
  /\ tz \in TimeZones

SchedStep ==
  \/ \E p \in Procs : runScheduler(p)
  \/ \E p \in Procs : startLoop(p)
  \/ \E p \in Procs : dayLoop(p)
  \/ \E p \in Procs :
       \E r \in BusyResponses(toISODate(current[p])) : busyResponse(p, r)
  \/ \E p \in Procs : \E ok \in BOOLEAN : eventResponse(p, ok)
  \/ \E p \in Procs : createTimeSlotsLoop(p)
  \/ \E p \in Procs : createTimeSlotsPush(p)

SchedNext ==
  \/ Receive(1)
  \/ SchedStep
  \/ \E p \in Procs : getAccessToken(p)
  \/ \E p \in Procs : refreshAccessToken(p)
  \/ \E p \in Procs : \E d \in TokenResponses(p) : refreshResponse(p, d)
  \/ \E p \in Procs : \E v \in Verifiers : startAuthFlowInternal(p, v)
  \/ \E p \in Procs : \E o \in RedirectOutcomes : authRedirect(p, o)
  \/ \E p \in Procs : \E d \in TokenResponses(p) : exchangeResponse(p, d)

SchedSpec == SchedInit /\ [][SchedNext]_vars

\* SchedSpec with every remote call answered in the end, and every step the
\* service worker can take taken in the end.
FairSchedSpec == SchedSpec /\ WF_vars(SchedNext)

\* ------------------------------------------------------------ RunSpec
\* One RUN_SCHEDULER message whose run has to refresh the credential; while
\* it is in its loop over the days, time passes and another invocation
\* clears the credential.
RunInit ==
  /\ AuthIdle
  /\ SchedIdle
  /\ store = Tokens("AT-old", "RT-old", StartMs + 30 * 1000)
  /\ cfg \in {c \in ConfigChoices : c.clientId = Undefined}
  /\ tz \in {z \in TimeZones : z.before = z.after}

RunNext ==
  \/ Receive(1)
  \/ runScheduler(1)
  \/ TokenStep
  \/ startLoop(1)
  \/ dayLoop(1)
  \/ \E r \in BusyResponses(toISODate(current[1])) : busyResponse(1, r)
  \/ \E ok \in BOOLEAN : eventResponse(1, ok)
  \/ pc[1] \in {"dayLoop", "busyWait", "eventWait"} /\ Call(2, "clearTokens")
  \/ clearTokens(2)
  \/ pc[1] \in {"dayLoop", "busyWait", "eventWait"} /\ Tick

RunSpec == RunInit /\ [][RunNext]_vars

\* ------------------------------------------------------------ TwoRunSpec
\* Two RUN_SCHEDULER messages for one day, handled at the same time on the
\* same calendar, with a valid credential in the store.
TwoRunRequests ==
  {Request("Focus", 1, 1, <<9, 0>>, we, <<9, 0>>, we) :
     we \in {<<10, 0>>, <<11, 0>>}}

TwoRunInit ==
  /\ AuthIdle
  /\ SchedIdle
  /\ store = Tokens("AT-old", "RT-old", StartMs + 90 * 1000)
  /\ cfg \in {c \in ConfigChoices : c.clientId = Undefined}
  /\ tz \in {z \in TimeZones : z.before = z.after}

\* The listener receives a RUN_SCHEDULER message, with a payload of pls,
\* while the run of another may be going on.
ReceiveOf(p, pls) ==
  /\ pc[p] = "idle"
  /\ \E pl \in pls : payload' = [payload EXCEPT ![p] = pl]
  /\ op' = [op EXCEPT ![p] = "runScheduler"]
  /\ pc' = [pc EXCEPT ![p] = "runScheduler"]
  /\ started' = started + 1
  /\ UNCHANGED <<store, cfg, now, tokens, clientId, codeVerifier, req, data,
                 calls, result, accessToken, tz, slotMinutes, config, current,
                 totalSlots, totalCreated, daySlots, busyPeriods, freeSlots,
                 slotIdx, dayStartStr, dayEndStr, queries, events>>

ReceiveAlso(p) == ReceiveOf(p, TwoRunRequests)

TwoRunNext ==
  \/ \E p \in Procs : ReceiveAlso(p)
  \/ \E p \in Procs : runScheduler(p)
  \/ \E p \in Procs : getAccessToken(p)
  \/ \E p \in Procs : startLoop(p)
  \/ \E p \in Procs : dayLoop(p)
  \/ \E p \in Procs :
       \E r \in BusyResponses(toISODate(current[p])) : busyResponse(p, r)
  \/ \E p \in Procs : \E ok \in BOOLEAN : eventResponse(p, ok)

TwoRunSpec == TwoRunInit /\ [][TwoRunNext]_vars

\* ------------------------------------------------------------ ListenerSpec
\* The message listener of the background page, with two messages handled at
\* the same time.
MessageTypes == {"CHECK_AUTH", "AUTH_GOOGLE", "RUN_SCHEDULER", "PING"}

\* The payloads of the RUN_SCHEDULER messages: one without a name, and one
\* for a day with one slot.
ListenerRequests ==
  {Request(Undefined, 1, 1, <<9, 0>>, <<9, 30>>, <<9, 0>>, <<9, 30>>),
   Request("Focus", 1, 1, <<9, 0>>, <<9, 30>>, <<9, 0>>, <<9, 30>>)}

\* A mutant of Unsupported: a message of an unknown type is left unanswered.
Unsupported_Silent(p) ==
  /\ pc[p] \in {"idle", "done"}
  /\ started < MaxCalls
  /\ started' = started + 1
  /\ op' = [op EXCEPT ![p] = "unsupported"]
  /\ pc' = [pc EXCEPT ![p] = "done"]
  /\ data' = [data EXCEPT ![p] = NoData]
  /\ calls' = [calls EXCEPT ![p] = NoCalls]
  /\ result' = [result EXCEPT ![p] = NoResult]
  /\ UNCHANGED <<store, cfg, now, tokens, clientId, codeVerifier, req,
                 accessToken, schedVars>>

\* The listener's last statement: a message of no supported type is answered
\* at once with a failure.
Unsupported(p) ==
  /\ pc[p] \in {"idle", "done"}
  /\ started < MaxCalls
  /\ started' = started + 1
  /\ op' = [op EXCEPT ![p] = "unsupported"]
  /\ pc' = [pc EXCEPT ![p] = "done"]
  /\ data' = [data EXCEPT ![p] = NoData]
  /\ calls' = [calls EXCEPT ![p] = NoCalls]
  /\ result' = [result EXCEPT ![p] =
                  [NoResult EXCEPT !.status = "error",
                                   !.error = "Tipo de mensaje no soportado."]]
  /\ UNCHANGED <<store, cfg, now, tokens, clientId, codeVerifier, req,
                 accessToken, schedVars>>

\* The listener is called with a message of type `type`.
onMessage(p, type) ==
  CASE type = "CHECK_AUTH" -> Call(p, "isAuthenticated")
    [] type = "AUTH_GOOGLE" -> Call(p, "startAuthFlow")
    [] type = "RUN_SCHEDULER" ->
         started < MaxCalls /\ ReceiveOf(p, ListenerRequests)
    [] OTHER -> Unsupported(p)

ListenerInit ==
  /\ AuthIdle
  /\ SchedIdle
  /\ store \in {NoTokens, Tokens("AT-old", "RT-old", StartMs + 90 * 1000)}
  /\ cfg \in {c \in ConfigChoices : c.clientId = Undefined}
              \cup {c \in SlotConfigs : c.slotMinutes = "0"}
  /\ tz \in {z \in TimeZones : z.before = z.after}

ListenerNext ==
  \/ \E p \in Procs : \E type \in MessageTypes : onMessage(p, type)
  \/ \E p \in Procs : isAuthenticated(p)
  \/ \E p \in Procs : startAuthFlow(p)
  \/ \E p \in Procs : getAccessToken(p)
  \/ \E p \in Procs : \E v \in Verifiers : startAuthFlowInternal(p, v)
  \/ \E p \in Procs : \E o \in RedirectOutcomes : authRedirect(p, o)
  \/ \E p \in Procs : \E d \in TokenResponses(p) : exchangeResponse(p, d)
  \/ \E p \in Procs : runScheduler(p)
  \/ \E p \in Procs : startLoop(p)
  \/ \E p \in Procs : dayLoop(p)
  \/ \E p \in Procs :
       \E r \in BusyResponses(toISODate(current[p])) : busyResponse(p, r)
  \/ \E p \in Procs : \E ok \in BOOLEAN : eventResponse(p, ok)
  \/ \E p \in Procs : createTimeSlotsLoop(p)
  \/ \E p \in Procs : createTimeSlotsPush(p)

ListenerSpec == ListenerInit /\ [][ListenerNext]_vars

\* ------------------------------------------------------------ FilterSpec
\* filterFreeSlots on its own, applied to the slots and busy periods of
\* invocation 1, whatever they are.
Instants == 0..MaxInstant
SlotChoices == {[start |-> a, end |-> b] : a \in Instants, b \in Instants}
SeqsOf(S) == UNION {[1..n -> S] : n \in 0..MaxSeqLen}

FilterInit ==
  /\ AuthInit
  /\ store = NoTokens
  /\ cfg.clientId = Undefined
  /\ tz \in {z \in TimeZones : z.before = z.after}
  /\ accessToken = [p \in Procs |-> Undefined]
  /\ payload = [p \in Procs |-> NoRequest]
  /\ slotMinutes = [p \in Procs |-> 0]
  /\ config = [p \in Procs |-> NoConfig]
  /\ current = [p \in Procs |-> 0]
  /\ totalSlots = [p \in Procs |-> 0]
  /\ totalCreated = [p \in Procs |-> 0]
  /\ \E s \in SeqsOf({x \in SlotChoices : x.start < x.end}) :
       daySlots = [p \in Procs |-> IF p = 1 THEN s ELSE <<>>]
  /\ \E b \in SeqsOf({x \in SlotChoices : x.start <= x.end}) :
       busyPeriods = [p \in Procs |-> IF p = 1 THEN b ELSE <<>>]
  /\ freeSlots = [p \in Procs |-> <<>>]
  /\ slotIdx = [p \in Procs |-> 0]
  /\ dayStartStr = [p \in Procs |-> <<>>]
  /\ dayEndStr = [p \in Procs |-> <<>>]
  /\ queries = [p \in Procs |-> <<>>]
  /\ events = <<>>

\* const freeSlots = filterFreeSlots(daySlots, busyPeriods)
applyFilterFreeSlots ==
  /\ pc[1] = "idle"
  /\ op' = [op EXCEPT ![1] = "filterFreeSlots"]
  /\ pc' = [pc EXCEPT ![1] = "done"]
  /\ freeSlots' = [freeSlots EXCEPT ![1] =
                     filterFreeSlots(daySlots[1], busyPeriods[1])]
  /\ UNCHANGED <<store, cfg, now, dayStartStr, dayEndStr,
                 started, tokens, clientId, codeVerifier,
                 req, data, calls, result, accessToken, tz, payload,
                 slotMinutes, config, current, totalSlots, totalCreated,
                 daySlots, busyPeriods, slotIdx, queries, events>>

FilterNext == applyFilterFreeSlots

FilterSpec == FilterInit /\ [][FilterNext]_vars

\* ------------------------------------------------------------ PlanSpec
\* maxTimeStr, minTimeStr and createTimeSlots on their own, as the loop of
\* runScheduler applies them to a request of one day: on the times of
\* invocation 1's request and on its slot duration, whatever they are.
PlanTimes == {<<h, m>> : h \in 9..(9 + MaxSpan), m \in {0, 40}}
Durations == {15, 30, 45, 60}

PlanInit ==
  /\ AuthIdle
  /\ store = NoTokens
  /\ cfg \in {c \in ConfigChoices : c.clientId = Undefined}
  /\ tz \in {z \in TimeZones : z.before = z.after}
  /\ accessToken = [p \in Procs |-> Undefined]
  /\ \E d \in {1, MaxDay}, ws \in PlanTimes, we \in PlanTimes,
        ts \in PlanTimes, te \in PlanTimes :
       /\ payload = [p \in Procs |->
                       IF p = 1 THEN Request("Focus", d, d, ws, we, ts, te)
                                ELSE NoRequest]
       /\ current = [p \in Procs |-> IF p = 1 THEN ParseDate(d) ELSE 0]
  /\ \E m \in Durations :
       slotMinutes = [p \in Procs |-> IF p = 1 THEN m ELSE 0]
  /\ config = [p \in Procs |-> NoConfig]
  /\ totalSlots = [p \in Procs |-> 0]
  /\ totalCreated = [p \in Procs |-> 0]
  /\ daySlots = [p \in Procs |-> <<>>]
  /\ busyPeriods = [p \in Procs |-> <<>>]
  /\ freeSlots = [p \in Procs |-> <<>>]
  /\ slotIdx = [p \in Procs |-> 0]
  /\ dayStartStr = [p \in Procs |-> <<>>]
  /\ dayEndStr = [p \in Procs |-> <<>>]
  /\ queries = [p \in Procs |-> <<>>]
  /\ events = <<>>

\* dayStartStr = maxTimeStr(workdayStart, taskStart)
applyMaxTimeStr ==
  /\ pc[1] = "idle"
  /\ op' = [op EXCEPT ![1] = "maxTimeStr"]
  /\ pc' = [pc EXCEPT ![1] = "dayEndStr"]
  /\ dayStartStr' = [dayStartStr EXCEPT ![1] =
                       maxTimeStr(payload[1].workdayStart,
                                  payload[1].taskStart)]
  /\ UNCHANGED <<store, cfg, now, started, tokens, clientId, codeVerifier,
                 req, data, calls, result, accessToken, tz, payload,
                 slotMinutes, config, current, totalSlots, totalCreated,
                 daySlots, busyPeriods, freeSlots, slotIdx, dayEndStr,
                 queries, events>>

\* dayEndStr = minTimeStr(workdayEnd, taskEnd)
applyMinTimeStr ==
  /\ pc[1] = "dayEndStr"
  /\ op' = [op EXCEPT ![1] = "minTimeStr"]
  /\ pc' = [pc EXCEPT ![1] = "daySlots"]
  /\ dayEndStr' = [dayEndStr EXCEPT ![1] =
                     minTimeStr(payload[1].workdayEnd, payload[1].taskEnd)]
  /\ UNCHANGED <<store, cfg, now, started, tokens, clientId, codeVerifier,
                 req, data, calls, result, accessToken, tz, payload,
                 slotMinutes, config, current, totalSlots, totalCreated,
                 daySlots, busyPeriods, freeSlots, slotIdx, dayStartStr,
                 queries, events>>

\* const daySlots = createTimeSlots(dateStr, dayStartStr, dayEndStr,
\* slotMinutes)
applyCreateTimeSlots ==
  /\ pc[1] = "daySlots"
  /\ op' = [op EXCEPT ![1] = "createTimeSlots"]
  /\ pc' = [pc EXCEPT ![1] = "done"]
  /\ daySlots' = [daySlots EXCEPT ![1] =
                    createTimeSlots(toISODate(current[1]), dayStartStr[1],
                                    dayEndStr[1], slotMinutes[1])]
  /\ UNCHANGED <<store, cfg, now, started, tokens, clientId, codeVerifier,
                 req, data, calls, result, accessToken, tz, payload,
                 slotMinutes, config, current, totalSlots, totalCreated,
                 busyPeriods, freeSlots, slotIdx, dayStartStr, dayEndStr,
                 queries, events>>

PlanNext == applyMaxTimeStr \/ applyMinTimeStr \/ applyCreateTimeSlots

PlanSpec == PlanInit /\ [][PlanNext]_vars

\* ------------------------------------------------------------ properties
\* p takes a step from the point `at` of its invocation of `o`.
StepFrom(p, o, at) == op[p] = o /\ pc[p] = at /\ pc'[p] # at

\* The events of the run of p, as positions in `events`.
EventsOf(p) == {i \in 1..Len(events) : events[i].by = p}

\* C1: no event is created for a slot that overlaps (slotStart < busyEnd and
\* busyStart < slotEnd) a busy period returned by the busy query the run
\* issued for that slot's day.
C1_NoEventOnBusy ==
  \A i \in 1..Len(events) :
    LET e == events[i]
        q == queries[e.by][e.query]
    IN  /\ q.day = e.day
        /\ \A j \in 1..Len(q.busy) :
             ~(e.start < q.busy[j].end /\ q.busy[j].start < e.end)

\* An event was created right after a busy period of the answer, and a slot
\* of that day was left out.
C1_Witness ==
  \E i \in 1..Len(events) :
    LET e == events[i]
        q == queries[e.by][e.query]
    IN  /\ \E j \in 1..Len(q.busy) : q.busy[j].end = e.start
        /\ Len(freeSlots[e.by]) < Len(daySlots[e.by])

\* C2: at every point of a run the events created so far are pairwise
\* non-overlapping half-open intervals, within a day and across days.
C2_EventsDisjoint ==
  \A p \in Procs :
    \A i \in EventsOf(p) : \A j \in EventsOf(p) :
      i # j => ~(events[i].start < events[j].end
                 /\ events[j].start < events[i].end)

\* C3: every event lies on a day from dateStart to dateEnd, inside
\* [workdayStart, workdayEnd]; on the first day none starts before taskStart,
\* on the last day none ends after taskEnd.
C3_EventsInWindow ==
  \A i \in 1..Len(events) :
    LET e == events[i]
        pl == payload[e.by]
    IN  /\ pl.dateStart <= e.day /\ e.day <= pl.dateEnd
        /\ LocalInstant(e.day, pl.workdayStart) <= e.start
        /\ e.end <= LocalInstant(e.day, pl.workdayEnd)
        /\ e.day = pl.dateStart => LocalInstant(e.day, pl.taskStart) <= e.start
        /\ e.day = pl.dateEnd => e.end <= LocalInstant(e.day, pl.taskEnd)

\* C4: with an invalid credential that holds a refresh token, a refresh the
\* token endpoint refuses sends getAccessToken on to the interactive flow;
\* an exchange that succeeds then makes it return the flow's access token;
\* getAccessToken fails only at the client id or in the interactive flow.
C4_RefreshFallback ==
  [][\A p \in Procs :
       /\ (StepFrom(p, "getAccessToken", "refreshWait") /\ ~data'[p].ok)
            => /\ pc'[p] = "startAuthFlowInternal"
               /\ result'[p].status = "none"
       /\ (StepFrom(p, "getAccessToken", "startAuthFlowInternal"))
            => calls'[p].launch = calls[p].launch + 1
       /\ (StepFrom(p, "getAccessToken", "exchangeWait") /\ data'[p].ok)
            => /\ pc'[p] = "done"
               /\ result'[p].status = "ok"
               /\ result'[p].token = data'[p].access_token
       /\ (op[p] = "getAccessToken" /\ result[p].status # "error"
           /\ result'[p].status = "error")
            => \/ pc[p] = "getAccessToken" /\ ~getClientId(cfg).ok
               \/ pc[p] \in {"authWait", "exchangeWait"}]_vars

\* getAccessToken returned the token of the interactive flow it ran after a
\* refused refresh.
C4_Witness ==
  \E p \in Procs :
    /\ op[p] = "getAccessToken" /\ pc[p] = "done"
    /\ calls[p].refresh = 1 /\ calls[p].launch = 1 /\ calls[p].exchange = 1
    /\ result[p].status = "ok" /\ result[p].token = Issued(p)

\* C5: while the stored credential is valid, every getAccessToken call
\* returns the stored access token, sends nothing to the token endpoint,
\* launches no interactive flow and leaves the store as it is.
C5_ValidIsIdempotent ==
  [][\A p \in Procs :
       (StepFrom(p, "getAccessToken", "getAccessToken")
        /\ store.stored /\ Truthy(store.access_token)
        /\ now < store.expires_at - 60 * 1000)
         => /\ pc'[p] = "done"
            /\ result'[p].status = "ok"
            /\ result'[p].token = store.access_token
            /\ calls'[p] = NoCalls
            /\ req'[p] = NoReq
            /\ store' = store]_vars

\* Two getAccessToken calls in a row returned the stored token, and nothing
\* was sent.
C5_Witness ==
  /\ \A p \in Procs :
       /\ op[p] = "getAccessToken" /\ pc[p] = "done"
       /\ result[p].token = "AT-old" /\ calls[p] = NoCalls
  /\ store.access_token = "AT-old"

\* C6: whenever getAccessToken returns, whatever the provider's successful
\* answer was, what it returns is a present access token, that of the stored
\* credential, and the stored credential passes the validity check.
C6_ReturnsValidToken ==
  [][\A p \in Procs :
       (op[p] = "getAccessToken" /\ pc[p] # "done" /\ pc'[p] = "done"
        /\ result'[p].status = "ok")
         => /\ Truthy(result'[p].token)
            /\ result'[p].token = store'.access_token
            /\ isTokenStillValid(store', now')]_vars

\* C7: the validity check is true iff a credential is stored, its access
\* token is present and now < expiresAt - 60 s: false at expiresAt = now +
\* 30 s, true at now + 90 s, false at now + 60 s and with nothing stored.
C7_ValidityCheck ==
  [][\A p \in Procs :
       StepFrom(p, "isAuthenticated", "isAuthenticated")
         => /\ result'[p].isAuthenticated
                 = (/\ store.stored
                    /\ Truthy(store.access_token)
                    /\ now < store.expires_at - 60 * 1000)
            /\ (store.stored /\ Truthy(store.access_token)
                /\ store.expires_at = now + 30 * 1000)
                 => ~result'[p].isAuthenticated
            /\ (store.stored /\ Truthy(store.access_token)
                /\ store.expires_at = now + 90 * 1000)
                 => result'[p].isAuthenticated
            /\ (store.stored /\ Truthy(store.access_token)
                /\ store.expires_at = now + 60 * 1000)
                 => ~result'[p].isAuthenticated
            /\ ~store.stored => ~result'[p].isAuthenticated]_vars

\* The check said no for a credential exactly 60 s from its expiry, and yes
\* for one 90 s from it.
C7_Witness ==
  \E p \in Procs : \E q \in Procs :
    /\ op[p] = "isAuthenticated" /\ pc[p] = "done"
    /\ result[p].isAuthenticated
    /\ op[q] = "isAuthenticated" /\ pc[q] = "done"
    /\ ~result[q].isAuthenticated
    /\ store.stored /\ Truthy(store.access_token)
    /\ store.expires_at = now + 60 * 1000

\* C8: isAuthenticated leaves the stored credential unchanged and sends
\* nothing, whatever is stored.
C8_CheckIsReadOnly ==
  [][\A p \in Procs :
       StepFrom(p, "isAuthenticated", "isAuthenticated")
         => /\ store' = store
            /\ calls' = calls
            /\ req' = req
            /\ pc'[p] = "done"
            /\ result'[p].status = "ok"]_vars

\* isAuthenticated answered no for an expired credential that holds a
\* refresh token.
C8_Witness ==
  \E p \in Procs :
    /\ op[p] = "isAuthenticated" /\ pc[p] = "done"
    /\ ~result[p].isAuthenticated
    /\ calls[p] = NoCalls
    /\ store.stored /\ Truthy(store.refresh_token)
    /\ ~(now < store.expires_at - 60 * 1000)

\* C9: no step of an interactive flow writes the store but the answer of a
\* code exchange that succeeded; a flow that fails, at whatever step, leaves
\* the store as it is.
C9_FailedFlowKeepsStore ==
  [][\A p \in Procs :
       (op[p] \in {"startAuthFlow", "getAccessToken"}
        /\ pc[p] \in {"startAuthFlow", "startAuthFlowInternal", "authWait",
                      "exchangeWait"}
        /\ pc'[p] # pc[p])
         => /\ result'[p].status = "error" => store' = store
            /\ store' # store => pc[p] = "exchangeWait" /\ data'[p].ok]_vars

\* A startAuthFlow failed at the code exchange and a getAccessToken failed
\* at the redirect, and the store still holds the old credential.
C9_Witness ==
  \E p \in Procs : \E q \in Procs :
    /\ op[p] = "startAuthFlow" /\ result[p].status = "error"
    /\ calls[p].exchange = 1
    /\ op[q] = "getAccessToken" /\ result[q].status = "error"
    /\ calls[q].launch = 1 /\ calls[q].exchange = 0
    /\ store.stored /\ store.access_token = "AT-old"

\* C10: a refresh that succeeds stores a new record: access token and expiry
\* from the answer, refresh token the answer's if it has one, else the one
\* the refresh found stored; a refresh that fails leaves the store as it is.
C10_RefreshStoresNewRecord ==
  [][\A p \in Procs :
       (pc[p] = "refreshWait" /\ pc'[p] # "refreshWait")
         => IF data'[p].ok
              THEN store' =
                     [stored |-> TRUE,
                      access_token |-> data'[p].access_token,
                      refresh_token |->
                        IF data'[p].refresh_token # Undefined
                          THEN data'[p].refresh_token
                          ELSE req[p].refresh_token,
                      expires_at |->
                        now + 1000 * (IF data'[p].expires_in = 0
                                        THEN 3600
                                        ELSE data'[p].expires_in)]
              ELSE store' = store]_vars

\* A refresh whose answer had no refresh token: the store holds the new
\* access token and the old refresh token.
C10_Witness ==
  \E p \in Procs :
    /\ calls[p].refresh = 1 /\ calls[p].launch = 0
    /\ data[p].ok /\ ~Truthy(data[p].refresh_token)
    /\ store.access_token = Issued(p)
    /\ store.refresh_token = "RT-old"

\* A required field of the request pl is missing or empty.
MissingField(pl) ==
  \/ pl.eventName = Undefined
  \/ pl.dateStart = 0 \/ pl.dateEnd = 0
  \/ pl.workdayStart = <<>> \/ pl.workdayEnd = <<>>
  \/ pl.taskStart = <<>> \/ pl.taskEnd = <<>>

\* C11: a run whose request misses a required field fails at once: the
\* configuration is not loaded, nothing is sent to the token endpoint, no
\* interactive authorization is launched, no busy query is sent and no event
\* is created.
C11_MissingFieldFailsFirst ==
  \A p \in Procs :
    (op[p] = "runScheduler" /\ MissingField(payload[p]))
      => /\ pc[p] \in {"runScheduler", "done"}
         /\ pc[p] = "done" => result[p].status = "error"
         /\ ~config[p].loaded
         /\ calls[p] = NoCalls
         /\ req[p] = NoReq
         /\ queries[p] = <<>>
         /\ EventsOf(p) = {}

\* A run without an event name has failed, with a credential in the store
\* that a run would have had to refresh.
C11_Witness ==
  \E p \in Procs :
    /\ op[p] = "runScheduler" /\ pc[p] = "done"
    /\ payload[p].eventName = Undefined
    /\ result[p].error = "Falta el nombre del evento."
    /\ ~isTokenStillValid(store, now)

\* The dates of the request pl are there, and one is no date or dateEnd is
\* earlier than dateStart.
BadDates(pl) ==
  /\ ~MissingField(pl)
  /\ pl.dateStart < 0 \/ pl.dateEnd < 0 \/ pl.dateEnd < pl.dateStart

\* C12: a run whose dates are unparseable, or whose dateEnd is earlier than
\* its dateStart, makes no network call: no refresh request, no interactive
\* authorization, no code exchange, no calendar call.
C12_BadDatesBeforeNetwork ==
  \A p \in Procs :
    (op[p] = "runScheduler" /\ BadDates(payload[p]))
      => /\ calls[p] = NoCalls
         /\ req[p] = NoReq

\* The turn of p's loop is for a day whose range is empty or inverted.
AtInvalidDay(p) ==
  /\ pc[p] = "dayLoop"
  /\ current[p] <= ParseDate(payload[p].dateEnd)
  /\ LET range == DayRange(payload[p], tz, current[p])
     IN  toMinutes(range.end) <= toMinutes(range.start)

\* C14: for a day whose range is invalid the run sends no busy query and
\* creates no event, leaves totalSlots and totalCreated as they are, raises
\* no error and goes on with the next day.
C14_InvalidRangeSkipsDay ==
  [][\A p \in Procs :
       (AtInvalidDay(p) /\ current'[p] # current[p])
         => /\ pc'[p] = "dayLoop"
            /\ result'[p] = result[p]
            /\ calls'[p] = calls[p]
            /\ req'[p] = req[p]
            /\ totalSlots'[p] = totalSlots[p]
            /\ totalCreated'[p] = totalCreated[p]
            /\ queries'[p] = queries[p]
            /\ events' = events
            /\ toISODate(current'[p]) = toISODate(current[p]) + 1]_vars

\* The run of p ends in failure with this step, and sends nothing.
FailsNow(p) ==
  /\ pc'[p] = "done"
  /\ result'[p].status = "error"
  /\ calls'[p] = calls[p]
  /\ req'[p] = NoReq

\* C15: a busy query or an event creation that fails ends the run in
\* failure at once, and a run that has failed sends no further busy query
\* and creates no further event.  (An answered query is logged in queries, a
\* created event in events: a step that takes the answer and logs nothing
\* took a failure.)
C15_FailFast ==
  [][\A p \in Procs :
       /\ (pc[p] = "busyWait" /\ req'[p] # req[p]
           /\ queries'[p] = queries[p])
            => FailsNow(p) /\ events' = events
       /\ (pc[p] = "eventWait" /\ events' = events
           /\ <<pc[p], req[p], current[p]>>' # <<pc[p], req[p], current[p]>>)
            => FailsNow(p) /\ queries'[p] = queries[p]
       /\ (op[p] = "runScheduler" /\ result[p].status = "error")
            => /\ pc'[p] = "done"
               /\ result'[p] = result[p]
               /\ calls'[p] = calls[p]
               /\ queries'[p] = queries[p]
               /\ events' = events]_vars

\* A run failed at the creation of its second event, free slots of the day
\* and a later day still ahead.
C15_Witness ==
  \E p \in Procs :
    /\ pc[p] = "done"
    /\ result[p].error = "Error al crear un evento en Google Calendar."
    /\ calls[p].event = 2 /\ Cardinality(EventsOf(p)) = 1
    /\ Len(queries[p][1].slots) > 2 /\ queries[p][1].busy = <<>>
    /\ queries[p][1].day < payload[p].dateEnd

ErrorKinds ==
  {"configuration", "authorization", "token-exchange", "availability-query",
   "event-creation", "invalid-date"}

\* C17: every fatal error that reaches the caller carries, besides its
\* message, a kind, one of ErrorKinds.
C17_ErrorsCarryKind ==
  \A p \in Procs :
    result[p].status = "error"
      => /\ result[p].error # Undefined
         /\ "kind" \in DOMAIN result[p]
         /\ result[p].kind \in ErrorKinds

\* The calendar calls of p's run that were sent and not yet answered with
\* success.
Outstanding(p) ==
  calls[p].busy + calls[p].event - Len(queries[p]) - Cardinality(EventsOf(p))

\* C18: in a run at most one calendar call is outstanding; days are taken in
\* ascending order; the busy query of a day is answered before an event of
\* that day is created, and the events of a day are all created before the
\* busy query of the next; events are created in strictly increasing order
\* of slot start over the whole run.
C18_SequentialOrder ==
  \A p \in Procs :
    /\ Outstanding(p) \in {0, 1}
    /\ Outstanding(p) = 1
         => pc[p] \in {"busyWait", "eventWait", "done"}
    /\ \A i \in 1..Len(queries[p]) : \A j \in 1..Len(queries[p]) :
         i < j => queries[p][i].day < queries[p][j].day
    /\ \A i \in EventsOf(p) :
         /\ events[i].query \in 1..Len(queries[p])
         /\ queries[p][events[i].query].day = events[i].day
    /\ \A i \in EventsOf(p) : \A j \in EventsOf(p) :
         i < j => /\ events[i].query <= events[j].query
                  /\ events[i].start < events[j].start

\* The slots generated over the answered queries qs.
RECURSIVE SlotCount(_)
SlotCount(qs) ==
  IF qs = <<>> THEN 0 ELSE Len(Head(qs).slots) + SlotCount(Tail(qs))

\* The slots of q that overlap no busy period of q's answer.
FreeOf(q) ==
  {k \in 1..Len(q.slots) :
     \A j \in 1..Len(q.busy) :
       ~(q.slots[k].start < q.busy[j].end /\ q.busy[j].start < q.slots[k].end)}

RECURSIVE FreeCount(_)
FreeCount(qs) ==
  IF qs = <<>> THEN 0 ELSE Cardinality(FreeOf(Head(qs))) + FreeCount(Tail(qs))

\* The run of p was for one day, workday 09:00-17:00, task 09:00-12:00, with
\* 30-minute slots, and its busy query was answered with `busy`.
Scenario(p, busy) ==
  /\ payload[p] \in ScenarioRequests
  /\ slotMinutes[p] = 30
  /\ Len(queries[p]) = 1
  /\ queries[p][1].busy = busy

\* C19: a run that succeeds reports as totalSlots the slots generated over
\* the days it did not skip, and as totalCreated those of them that overlap
\* no busy period reported for their day, which is the number of events it
\* created: 6 and 6 in the scenario with no busy period, 6 and 5 with the
\* busy period 10:00-10:30.
C19_Totals ==
  \A p \in Procs :
    (op[p] = "runScheduler" /\ pc[p] = "done" /\ result[p].status = "ok")
      => /\ result[p].totalSlots = SlotCount(queries[p])
         /\ result[p].totalCreated = FreeCount(queries[p])
         /\ result[p].totalCreated = Cardinality(EventsOf(p))
         /\ Scenario(p, <<>>)
              => result[p].totalSlots = 6 /\ result[p].totalCreated = 6
         /\ Scenario(p, <<Period(1, <<10, 0>>, <<10, 30>>)>>)
              => result[p].totalSlots = 6 /\ result[p].totalCreated = 5

\* The scenario with the busy period 10:00-10:30 has run to its end.
C19_Witness ==
  \E p \in Procs :
    /\ op[p] = "runScheduler" /\ pc[p] = "done" /\ result[p].status = "ok"
    /\ Scenario(p, <<Period(1, <<10, 0>>, <<10, 30>>)>>)
    /\ result[p].totalCreated = 5

\* The positions of the slots of `slots` that no period of `busy` overlaps.
Kept(slots, busy) ==
  {i \in 1..Len(slots) :
     \A j \in 1..Len(busy) :
       ~(slots[i].start < busy[j].end /\ busy[j].start < slots[i].end)}

\* C20: filterFreeSlots returns the slots that overlap no busy period
\* (slotStart < busyEnd and busyStart < slotEnd), each once, unchanged and in
\* the order of the input; a slot that only touches busy periods is kept.
C20_FilterFreeSlots ==
  (op[1] = "filterFreeSlots" /\ pc[1] = "done")
    => LET slots == daySlots[1]
           busy == busyPeriods[1]
           out == freeSlots[1]
           K == Kept(slots, busy)
       IN  /\ Len(out) = Cardinality(K)
           /\ \A k \in 1..Len(out) :
                out[k] = slots[CHOOSE i \in K :
                                 Cardinality({j \in K : j <= i}) = k]
           /\ \A i \in 1..Len(slots) :
                (\A j \in 1..Len(busy) :
                   slots[i].end = busy[j].start \/ slots[i].start = busy[j].end)
                  => i \in K

\* Of two slots the one a busy period overlaps was dropped and the one that
\* starts where the busy period ends was kept.
C20_Witness ==
  /\ op[1] = "filterFreeSlots" /\ pc[1] = "done"
  /\ Len(daySlots[1]) = 2 /\ Len(busyPeriods[1]) = 1
  /\ daySlots[1][1].start < busyPeriods[1][1].end
  /\ busyPeriods[1][1].start < daySlots[1][1].end
  /\ daySlots[1][2].start = busyPeriods[1][1].end
  /\ freeSlots[1] = <<daySlots[1][2]>>

\* The range createTimeSlots was called with, as instants, once it has
\* returned in PlanSpec.
Planned == op[1] = "createTimeSlots" /\ pc[1] = "done"
RangeStart == LocalInstant(toISODate(current[1]), dayStartStr[1])
RangeEnd == LocalInstant(toISODate(current[1]), dayEndStr[1])

\* C21: for every day, range and positive slot duration, every slot that
\* createTimeSlots returns lasts exactly the duration, starts at or after the
\* start of the range and ends at or before its end.
C21_SlotsInRange ==
  Planned =>
    \A i \in 1..Len(daySlots[1]) :
      /\ daySlots[1][i].end - daySlots[1][i].start = slotMinutes[1]
      /\ daySlots[1][i].start >= RangeStart
      /\ daySlots[1][i].end <= RangeEnd

\* createTimeSlots has returned two slots or more of a range that the
\* duration does not divide.
C21_Witness ==
  /\ Planned
  /\ Len(daySlots[1]) >= 2
  /\ (RangeEnd - RangeStart) % slotMinutes[1] # 0

\* C22: for a range of L minutes and a positive duration d createTimeSlots
\* returns floor(L / d) slots when L > 0 and none when L <= 0; the first
\* starts at the start of the range, each next one starts where the one
\* before it ends, and what is left at the end of the range, shorter than d,
\* belongs to no slot.
C22_SlotCount ==
  Planned =>
    LET L == RangeEnd - RangeStart
        d == slotMinutes[1]
        n == Len(daySlots[1])
    IN  /\ n = IF L > 0 THEN L \div d ELSE 0
        /\ n > 0 => daySlots[1][1].start = RangeStart
        /\ \A i \in 1..(n - 1) : daySlots[1][i + 1].start = daySlots[1][i].end
        /\ n > 0 => /\ daySlots[1][n].end = RangeStart + n * d
                    /\ RangeEnd - daySlots[1][n].end < d

\* createTimeSlots has returned the slots of a range with a remainder
\* shorter than the duration, which it dropped.
C22_Witness ==
  /\ Planned
  /\ Len(daySlots[1]) >= 1
  /\ RangeEnd - daySlots[1][Len(daySlots[1])].end > 0

\* C24: for all times t1 and t2, maxTimeStr returns one of the two whose
\* minutes since midnight are the greater of the two, and minTimeStr one of
\* the two whose minutes are the lesser, also when t1 and t2 are the same
\* time.
C24_MaxMinTimeStr ==
  LET pl == payload[1]
      Max(a, b) == IF a >= b THEN a ELSE b
      Min(a, b) == IF a <= b THEN a ELSE b
  IN  /\ op[1] \in {"maxTimeStr", "minTimeStr", "createTimeSlots"} =>
           /\ dayStartStr[1] \in {pl.workdayStart, pl.taskStart}
           /\ toMinutes(dayStartStr[1]) =
                Max(toMinutes(pl.workdayStart), toMinutes(pl.taskStart))
      /\ op[1] \in {"minTimeStr", "createTimeSlots"} =>
           /\ dayEndStr[1] \in {pl.workdayEnd, pl.taskEnd}
           /\ toMinutes(dayEndStr[1]) =
                Min(toMinutes(pl.workdayEnd), toMinutes(pl.taskEnd))

\* Both have returned their second argument: the first was the earlier for
\* maxTimeStr and the later for minTimeStr.
C24_Witness ==
  /\ op[1] = "minTimeStr"
  /\ toMinutes(payload[1].workdayStart) < toMinutes(payload[1].taskStart)
  /\ dayStartStr[1] = payload[1].taskStart
  /\ toMinutes(payload[1].workdayEnd) > toMinutes(payload[1].taskEnd)
  /\ dayEndStr[1] = payload[1].taskEnd

\* The later and the earlier of two times of day.
Later(t1, t2) == IF toMinutes(t2) > toMinutes(t1) THEN t2 ELSE t1
Earlier(t1, t2) == IF toMinutes(t2) < toMinutes(t1) THEN t2 ELSE t1

\* The effective range of the calendar day `day` of the request pl.
EffectiveRange(pl, day) ==
  IF pl.dateStart = pl.dateEnd
    THEN [start |-> Later(pl.workdayStart, pl.taskStart),
          end |-> Earlier(pl.workdayEnd, pl.taskEnd)]
  ELSE IF day = pl.dateStart
    THEN [start |-> Later(pl.workdayStart, pl.taskStart),
          end |-> pl.workdayEnd]
  ELSE IF day = pl.dateEnd
    THEN [start |-> pl.workdayStart,
          end |-> Earlier(pl.workdayEnd, pl.taskEnd)]
  ELSE [start |-> pl.workdayStart, end |-> pl.workdayEnd]

\* p's loop takes up a day: its condition holds.
TakesDay(p) ==
  /\ op[p] = "runScheduler"
  /\ pc[p] = "dayLoop"
  /\ current[p] <= ParseDate(payload[p].dateEnd)

\* C23: the range computed for a day is (max(workdayStart, taskStart),
\* min(workdayEnd, taskEnd)) in a run of one day, (max(workdayStart,
\* taskStart), workdayEnd) on the first day of a longer run, (workdayStart,
\* min(workdayEnd, taskEnd)) on its last day and (workdayStart, workdayEnd)
\* on a day in between.
C23_EffectiveRange ==
  [][\A p \in Procs :
       TakesDay(p) =>
         LET range == EffectiveRange(payload[p], toISODate(current[p]))
         IN  dayStartStr'[p] = range.start /\ dayEndStr'[p] = range.end]_vars

\* C25: every run of runScheduler that has started ends in the end, with a
\* result or with a failure, each remote call being answered in the end,
\* whatever the request and the stored configuration, a slot duration of 0 or
\* of a negative number of minutes included.
C25_RunEnds ==
  \A p \in Procs :
    (op[p] = "runScheduler" /\ pc[p] = "runScheduler")
      ~> (pc[p] = "done" /\ result[p].status \in {"ok", "error"})

\* p reads a success answer of the token endpoint.
ReadsTokens(p) ==
  /\ pc[p] \in {"refreshWait", "exchangeWait"}
  /\ pc'[p] # pc[p]
  /\ data'[p].ok

\* The whole record p builds from its own answer d.
OwnRecord(p, d) ==
  Tokens(d.access_token,
         IF pc[p] = "refreshWait" /\ ~Truthy(d.refresh_token)
           THEN tokens[p].refresh_token
           ELSE d.refresh_token,
         ExpiresAt(now, d.expires_in))

\* C26: with two invocations that refresh or exchange at the same time, each
\* write of the credential replaces the stored record by the whole record of
\* the writer, so that the store holds the record of the last write and no
\* mixture of the two, and each invocation returns the access token of its
\* own answer.
C26_LastWriterWins ==
  [][/\ \A p \in Procs :
          ReadsTokens(p) =>
            /\ store' = OwnRecord(p, data'[p])
            /\ op[p] = "getAccessToken" =>
                 /\ result'[p].status = "ok"
                 /\ result'[p].token = data'[p].access_token
     /\ store' # store =>
          \E p \in Procs : ReadsTokens(p) \/ pc[p] = "clearTokens"]_vars

\* Both invocations have refreshed and returned, each its own access token:
\* 2 wrote the refresh token of its answer, then 1, which had loaded the
\* credential before that write, wrote its record.
C26_Witness ==
  /\ \A p \in Procs :
       /\ op[p] = "getAccessToken" /\ pc[p] = "done"
       /\ calls[p].refresh = 1 /\ data[p].ok
       /\ result[p].token = Issued(p)
  /\ data[2].refresh_token = "RT-new"
  /\ store.access_token = Issued(1)
  /\ store.refresh_token = "RT-old"

\* What must not reach the authorization URL.
Secrets(p) ==
  {getClientSecret(cfg).value, store.access_token, store.refresh_token,
   tokens[p].access_token, tokens[p].refresh_token}
  \cup Verifiers

\* C27: the authorization URL carries client_id, redirect_uri,
\* response_type=code, scope, access_type=offline, prompt=consent, the code
\* challenge and code_challenge_method=S256 and nothing else: no client
\* secret, no code verifier, no stored token.  Verifier and secret go in
\* token-endpoint requests only, and the verifier of the exchange is the one
\* whose challenge was in the URL of the same attempt.
C27_UrlCarriesNoSecret ==
  /\ [](\A p \in Procs :
          /\ req[p].kind = "authorize" =>
               /\ DOMAIN req[p] =
                    {"kind", "client_id", "redirect_uri", "response_type",
                     "scope", "access_type", "prompt", "code_challenge",
                     "code_challenge_method"}
               /\ req[p].client_id = getClientId(cfg).value
               /\ req[p].redirect_uri = RedirectUri
               /\ req[p].response_type = "code"
               /\ req[p].scope = SCOPES
               /\ req[p].access_type = "offline"
               /\ req[p].prompt = "consent"
               /\ req[p].code_challenge = createCodeChallenge(codeVerifier[p])
               /\ req[p].code_challenge_method = "S256"
               /\ \A f \in {"client_id", "redirect_uri", "scope"} :
                    req[p][f] \notin Secrets(p)
          /\ ("client_secret" \in DOMAIN req[p]
                \/ "code_verifier" \in DOMAIN req[p]) =>
               req[p].kind = "token")
  /\ [][\A p \in Procs :
          (pc[p] = "authWait" /\ pc'[p] = "exchangeWait") =>
            /\ req'[p].kind = "token"
            /\ req'[p].code_verifier = codeVerifier[p]
            /\ req[p].code_challenge =
                 createCodeChallenge(req'[p].code_verifier)]_vars

\* The code of an attempt is being exchanged while the other invocation,
\* with another verifier, has its authorization URL open.
C27_Witness ==
  \E p \in Procs, q \in Procs :
    /\ req[p].kind = "token" /\ req[p].grant_type = "authorization_code"
    /\ req[q].kind = "authorize"
    /\ codeVerifier[p] # codeVerifier[q]

\* C28: startAuthFlow always launches the interactive flow, whatever is in
\* the store, a valid credential or one with a refresh token included: it
\* never returns without having launched it, never returns the stored token
\* and never sends a refresh request.
C28_AlwaysLaunches ==
  \A p \in Procs :
    op[p] = "startAuthFlow" =>
      /\ calls[p].refresh = 0
      /\ result[p].token = Undefined
      /\ pc[p] \in {"authWait", "exchangeWait", "done"} => calls[p].launch = 1
      /\ pc[p] \in {"startAuthFlow", "startAuthFlowInternal"} =>
           result[p].status = "none"

\* startAuthFlow has launched the flow with a valid credential and a refresh
\* token in the store.
C28_Witness ==
  \E p \in Procs :
    /\ op[p] = "startAuthFlow" /\ pc[p] = "authWait"
    /\ isTokenStillValid(store, now)
    /\ Truthy(store.refresh_token)

\* p's loop goes on to another day.
NextTurn(p) ==
  /\ op[p] = "runScheduler"
  /\ pc[p] \in {"dayLoop", "busyWait", "eventWait"}
  /\ pc'[p] = "dayLoop"
  /\ current'[p] # current[p]

\* C29: a run that succeeds takes up every calendar day from dateStart to
\* dateEnd once, in ascending order, and no other day: the first day taken up
\* is dateStart, each next one is the day after the one before, the loop ends
\* after dateEnd, and with dateStart = dateEnd the one day is taken up as a
\* single day.
C29_EachDayOnce ==
  [][\A p \in Procs :
       LET pl == payload[p] IN
       /\ (op[p] = "runScheduler" /\ pc[p] = "parseDates"
             /\ pc'[p] = "dayLoop") =>
            toISODate(current'[p]) = pl.dateStart
       /\ TakesDay(p) =>
            /\ toISODate(current[p]) \in pl.dateStart..pl.dateEnd
            /\ pl.dateStart = pl.dateEnd =>
                 /\ dayStartStr'[p] = Later(pl.workdayStart, pl.taskStart)
                 /\ dayEndStr'[p] = Earlier(pl.workdayEnd, pl.taskEnd)
       /\ NextTurn(p) => toISODate(current'[p]) = toISODate(current[p]) + 1
       /\ (op[p] = "runScheduler" /\ pc[p] = "dayLoop"
             /\ pc'[p] = "done" /\ result'[p].status = "ok") =>
            toISODate(current[p]) = pl.dateEnd + 1]_vars

\* Where runScheduler stands while getAccessToken is at work for it.
TokenFlow ==
  {"getAccessToken", "refreshAccessToken", "refreshWait",
   "startAuthFlowInternal", "authWait", "exchangeWait"}

\* Where runScheduler stands in its loop over the days.
DayLoop ==
  {"dayLoop", "busyWait", "eventWait", "createTimeSlots",
   "createTimeSlots.push"}

\* C30: the steps of a run come in the order: the checks of the request,
\* loadConfig, one call of getAccessToken, the loop over the days.
\* getAccessToken is called once in a run, and a busy query or an event
\* creation is sent only after it has returned, with what it returned.
C30_StepOrder ==
  [][\A p \in Procs :
       op'[p] = "runScheduler" =>
         /\ (pc'[p] = "runScheduler" /\ pc[p] # "runScheduler") =>
              pc[p] = "idle" /\ ~config[p].loaded
         /\ (pc'[p] = "getAccessToken" /\ pc[p] # "getAccessToken") =>
              /\ pc[p] = "runScheduler"
              /\ ~MissingField(payload[p])
              /\ ~config[p].loaded /\ config'[p].loaded
         /\ (pc'[p] \in TokenFlow /\ pc[p] \notin TokenFlow) =>
              pc'[p] = "getAccessToken"
         /\ (pc'[p] = "parseDates" /\ pc[p] # "parseDates") =>
              pc[p] \in TokenFlow
         /\ (pc'[p] \in DayLoop /\ pc[p] \notin DayLoop) =>
              pc[p] = "parseDates"
         /\ pc[p] \in DayLoop => pc'[p] \in DayLoop \cup {"done"}
         /\ pc[p] \in DayLoop \cup {"parseDates"} =>
              accessToken'[p] = accessToken[p]
         /\ (calls'[p].busy # calls[p].busy
               \/ calls'[p].event # calls[p].event) =>
              /\ pc[p] \in DayLoop
              /\ req'[p].bearer = accessToken[p]]_vars

\* A run whose getAccessToken refreshed the credential has gone on to its
\* loop and sends an event creation.
C30_Witness ==
  \E p \in Procs :
    /\ op[p] = "runScheduler" /\ pc[p] = "eventWait"
    /\ calls[p].refresh = 1 /\ calls[p].event >= 1
    /\ accessToken[p] = Issued(p)

\* The UTC offset, in hours, of a configured time zone on the days of the
\* model.
ZoneOffset(name) ==
  CASE name = "America/Bogota" -> 0 - 5
    [] name = "Europe/Madrid" -> 1

\* The UTC instant, in minutes, of the local instant m of createTimeSlots in
\* the browser's zone z.
ToUtc(z, m) ==
  IF m - z.before * 60 < z.at * 60 THEN m - z.before * 60
                                   ELSE m - z.after * 60

\* The UTC instant, in minutes, of a bound of the busy query's window.
WindowUtc(b) == LocalInstant(b.date, b.time) - b.offset * 60

\* C31: for every day that is not skipped the window of the busy query is
\* the day's range in the configured time zone, and it contains every slot
\* of the day, whatever the configured zone.
C31_QueryWindow ==
  \A p \in Procs :
    (op[p] = "runScheduler" /\ pc[p] = "busyWait") =>
      /\ req[p].timeMin.date = toISODate(current[p])
      /\ req[p].timeMax.date = toISODate(current[p])
      /\ req[p].timeMin.time = dayStartStr[p]
      /\ req[p].timeMax.time = dayEndStr[p]
      /\ req[p].timeMin.offset = ZoneOffset(config[p].timeZone)
      /\ req[p].timeMax.offset = ZoneOffset(config[p].timeZone)
      /\ \A i \in 1..Len(daySlots[p]) :
           /\ WindowUtc(req[p].timeMin) <= ToUtc(tz, daySlots[p][i].start)
           /\ ToUtc(tz, daySlots[p][i].end) <= WindowUtc(req[p].timeMax)

\* The answered busy queries of p for the calendar day d.
QueriesOf(p, d) == {k \in 1..Len(queries[p]) : queries[p][k].day = d}

\* The events p created for slot i of its query k.
EventsFor(p, k, i) ==
  {e \in EventsOf(p) :
     events[e].query = k /\ events[e].start = queries[p][k].slots[i].start}

\* C32: no calendar call is sent again.  A run sends one busy query for each
\* day with a valid range, also when no slot fits in it, and none for a
\* skipped day; it sends at most one event creation for a free slot, and
\* exactly one when it succeeds.
C32_NoRetry ==
  \A p \in Procs :
    op[p] = "runScheduler" =>
      LET pl == payload[p]
          Valid(d) == isValidRange(EffectiveRange(pl, d).start,
                                   EffectiveRange(pl, d).end)
          ended == pc[p] = "done" /\ result[p].status = "ok"
      IN  /\ calls[p].busy <= Len(queries[p]) + 1
          /\ calls[p].event <= Cardinality(EventsOf(p)) + 1
          /\ \A k \in 1..Len(queries[p]) :
               /\ QueriesOf(p, queries[p][k].day) = {k}
               /\ queries[p][k].day \in pl.dateStart..pl.dateEnd
               /\ Valid(queries[p][k].day)
               /\ \A i \in 1..Len(queries[p][k].slots) :
                    /\ Cardinality(EventsFor(p, k, i)) <= 1
                    /\ i \notin FreeOf(queries[p][k]) => EventsFor(p, k, i) = {}
                    /\ (ended /\ i \in FreeOf(queries[p][k])) =>
                         Cardinality(EventsFor(p, k, i)) = 1
          /\ ended =>
               /\ calls[p].busy = Len(queries[p])
               /\ calls[p].event = Cardinality(EventsOf(p))
               /\ \A d \in pl.dateStart..pl.dateEnd :
                    Valid(d) => QueriesOf(p, d) # {}

\* C33: getAccessToken sends a refresh request only for a credential that is
\* not valid and has a refresh token; with nothing stored, or with no refresh
\* token, it goes to the interactive flow and sends no refresh request.  In
\* one call it sends at most one refresh request, launches at most one
\* interactive flow and sends at most one code exchange, and it ends once
\* these have been answered.
C33_RefreshOnlyWhenDue ==
  /\ [][\A p \in Procs :
          op[p] = "getAccessToken" =>
            /\ calls'[p].refresh > calls[p].refresh =>
                 /\ tokens[p].stored
                 /\ Truthy(tokens[p].refresh_token)
                 /\ ~isTokenStillValid(tokens[p], now)
            /\ (pc[p] = "getAccessToken" /\ pc'[p] # pc[p]
                  /\ ~isTokenStillValid(store, now)
                  /\ ~(store.stored /\ Truthy(store.refresh_token))) =>
                 /\ pc'[p] = "startAuthFlowInternal"
                 /\ calls'[p] = calls[p]]_vars
  /\ [](\A p \in Procs :
          op[p] = "getAccessToken" =>
            /\ calls[p].refresh <= 1
            /\ calls[p].launch <= 1
            /\ calls[p].exchange <= 1
            /\ (pc[p] \in {"startAuthFlowInternal", "authWait", "exchangeWait"}
                  /\ ~Truthy(tokens[p].refresh_token)) =>
                 calls[p].refresh = 0)
  /\ \A p \in Procs :
       (op[p] = "getAccessToken" /\ pc[p] = "getAccessToken")
         ~> (op[p] = "getAccessToken" /\ pc[p] = "done")

\* getAccessToken found a credential that is not valid and has no refresh
\* token, and waits for the interactive flow with no refresh request sent.
C33_Witness ==
  \E p \in Procs :
    /\ op[p] = "getAccessToken" /\ pc[p] = "authWait"
    /\ store.stored /\ ~Truthy(store.refresh_token)
    /\ ~isTokenStillValid(store, now)
    /\ calls[p].refresh = 0 /\ calls[p].launch = 1

\* p sends a busy query or an event creation.
SendsCalendarCall(p) ==
  calls'[p].busy > calls[p].busy \/ calls'[p].event > calls[p].event

\* C34: every busy query and event creation of a run carries the access
\* token that the one getAccessToken call of the run returned; once in its
\* loop the run checks no validity, refreshes nothing and launches no
\* authorization, however much time passes and whatever becomes of the
\* stored credential.
C34_SameToken ==
  [][\A p \in Procs :
       op[p] = "runScheduler" =>
         /\ SendsCalendarCall(p) =>
              /\ pc[p] \in DayLoop
              /\ req'[p].bearer = accessToken[p]
         /\ pc[p] \in DayLoop =>
              /\ accessToken'[p] = accessToken[p]
              /\ pc'[p] \notin TokenFlow
              /\ calls'[p].refresh = calls[p].refresh
              /\ calls'[p].launch = calls[p].launch
              /\ calls'[p].exchange = calls[p].exchange
              /\ (store' # store \/ now' # now) =>
                   /\ pc'[p] = pc[p] /\ req'[p] = req[p]
                   /\ accessToken'[p] = accessToken[p]]_vars

\* A run sends a busy query with the token it got at its start after the
\* credential was cleared from the store and time has passed.
C34_Witness ==
  /\ op[1] = "runScheduler" /\ pc[1] = "busyWait"
  /\ Len(queries[1]) >= 1
  /\ store = NoTokens
  /\ now > StartMs
  /\ req[1].bearer = Issued(1)

\* C35: after a code exchange that succeeds the refresh token of the stored
\* credential is the one of the provider's response, and there is none when
\* the response has none, even if one was stored before; a refresh, unlike
\* the exchange, keeps the refresh token it had.
C35_ExchangeRefreshToken ==
  [][\A p \in Procs :
       /\ (pc[p] = "exchangeWait" /\ pc'[p] # pc[p] /\ data'[p].ok) =>
            /\ store'.stored
            /\ store'.refresh_token = data'[p].refresh_token
            /\ ~Truthy(data'[p].refresh_token) =>
                 ~Truthy(store'.refresh_token)
       /\ (pc[p] = "refreshWait" /\ pc'[p] # pc[p] /\ data'[p].ok
             /\ ~Truthy(data'[p].refresh_token)) =>
            /\ Truthy(tokens[p].refresh_token)
            /\ store'.refresh_token = tokens[p].refresh_token]_vars

\* An invocation whose refresh of the stored refresh token failed has
\* exchanged a code; the response had no refresh token, and the store has
\* none any more.
C35_Witness ==
  \E p \in Procs :
    /\ pc[p] = "done" /\ result[p].status = "ok"
    /\ calls[p].refresh = 1 /\ calls[p].exchange = 1
    /\ data[p].ok /\ ~Truthy(data[p].refresh_token)
    /\ store.stored /\ store.access_token = Issued(p)
    /\ ~Truthy(store.refresh_token)

\* The run of p has ended with success.
EndedOk(p) ==
  op[p] = "runScheduler" /\ pc[p] = "done" /\ result[p].status = "ok"

\* Query k of run p and query m of run q, for the same day, were both
\* answered before either run created an event for that day.
BothQueriesFirst(p, k, q, m) ==
  /\ queries[p][k].day = queries[q][m].day
  /\ \A e \in 1..Len(events) :
       (\/ events[e].by = p /\ events[e].query = k
        \/ events[e].by = q /\ events[e].query = m)
         => e > queries[p][k].seen /\ e > queries[q][m].seen

\* C36: the creation of an event does not look at the calendar again: between
\* the answer to a day's busy query and the creations for that day a run
\* sends no other busy query, and each creation is for the next slot that
\* was free in that answer, whatever events the calendar has got meanwhile;
\* a run that succeeds has created an event for every such slot.  So when two
\* runs with the same request have both succeeded, and for a day both busy
\* queries were answered before either run's creations for that day, each
\* slot free in both answers holds an event of each run.
C36_NoRecheck ==
  /\ [][\A p \in Procs :
          (op[p] = "runScheduler" /\ pc'[p] = "eventWait"
             /\ (pc[p] # "eventWait" \/ slotIdx'[p] # slotIdx[p])) =>
            LET q == queries'[p][Len(queries'[p])] IN
            /\ calls'[p].busy = Len(queries'[p])
            /\ freeSlots'[p] = filterFreeSlots(q.slots, q.busy)
            /\ req'[p].kind = "events.insert"
            /\ req'[p].start = freeSlots'[p][slotIdx'[p]].start
            /\ req'[p].end = freeSlots'[p][slotIdx'[p]].end
            /\ pc[p] = "eventWait" =>
                 /\ queries'[p] = queries[p]
                 /\ freeSlots'[p] = freeSlots[p]
                 /\ slotIdx'[p] = slotIdx[p] + 1]_vars
  /\ [](\A p \in Procs :
          EndedOk(p) =>
            \A k \in 1..Len(queries[p]) :
              \A i \in FreeOf(queries[p][k]) : EventsFor(p, k, i) # {})
  /\ []((EndedOk(1) /\ EndedOk(2) /\ payload[1] = payload[2]) =>
          \A k \in 1..Len(queries[1]) :
            \A m \in 1..Len(queries[2]) :
              BothQueriesFirst(1, k, 2, m) =>
                \A i \in FreeOf(queries[1][k]) \cap FreeOf(queries[2][m]) :
                  \E e \in EventsFor(1, k, i) :
                    \E f \in EventsFor(2, m, i) :
                      /\ e # f
                      /\ events[e].start = events[f].start
                      /\ events[e].end = events[f].end)

\* Two runs with the same request were both answered that the day is free
\* before either had created an event, and the calendar has two events in the
\* first slot, one of each run.
C36_Witness ==
  /\ EndedOk(1) /\ EndedOk(2) /\ payload[1] = payload[2]
  /\ Len(queries[1]) = 1 /\ Len(queries[2]) = 1
  /\ queries[1][1].busy = <<>> /\ queries[2][1].busy = <<>>
  /\ queries[1][1].seen = 0 /\ queries[2][1].seen = 0
  /\ \E e \in EventsOf(1) :
       \E f \in EventsOf(2) :
         /\ events[e].start = events[f].start
         /\ events[e].end = events[f].end
         /\ events[e].start = queries[1][1].slots[1].start

\* An invocation waits for the token endpoint's answer to its refresh or
\* its code exchange.
TokenInFlight == {"refreshWait", "exchangeWait"}

\* C37: clearTokens leaves no credential in the store, and isAuthenticated
\* answers false as long as none is there; a store without a credential gets
\* one again only by the answer to a refresh or a code exchange that is in
\* flight, and such an answer is saved without a look at the store, so also
\* after clearTokens has returned.
C37_ClearTokens ==
  [][/\ \A p \in Procs :
          /\ (pc[p] = "clearTokens" /\ pc'[p] # pc[p]) =>
               /\ store' = NoTokens
               /\ pc'[p] = "done" /\ result'[p].status = "ok"
          /\ (op[p] = "isAuthenticated" /\ pc[p] = "isAuthenticated"
                /\ pc'[p] = "done" /\ ~store.stored) =>
               /\ result'[p].status = "ok"
               /\ ~result'[p].isAuthenticated
          /\ (pc[p] \in TokenInFlight /\ pc'[p] = "done"
                /\ result'[p].status = "ok") =>
               /\ store'.stored
               /\ store'.access_token = data'[p].access_token
     /\ (~store.stored /\ store'.stored) =>
          \E q \in Procs : pc[q] \in TokenInFlight /\ pc'[q] # pc[q]]_vars

\* clearTokens has returned, no authorization was launched, and the store
\* holds a valid credential: the answer to a refresh that had been sent before
\* the credential was cleared.
C37_Witness ==
  /\ started = 2
  /\ op[2] = "clearTokens" /\ pc[2] = "done" /\ result[2].status = "ok"
  /\ op[1] = "getAccessToken" /\ pc[1] = "done" /\ result[1].status = "ok"
  /\ calls[1].refresh = 1 /\ calls[1].launch = 0 /\ calls[2].launch = 0
  /\ store.access_token = Issued(1)
  /\ isTokenStillValid(store, now)

\* The step is the listener's answer to a message of no supported type that
\* p handles.
AnswersUnsupported(p) ==
  /\ started' = started + 1
  /\ op'[p] = "unsupported"
  /\ pc[p] \in {"idle", "done"}
  /\ \A q \in Procs \ {p} : pc'[q] = pc[q] /\ op'[q] = op[q]

\* C38: every message gets one response.  The response to a CHECK_AUTH,
\* AUTH_GOOGLE or RUN_SCHEDULER message is sent in the step that ends its
\* operation, it is a success or a failure, and it is not followed by another
\* response to the same message; a message of another type is answered in
\* the step that receives it, with a failure, and no credential is read or
\* written and no request is sent for it.
C38_OneResponse ==
  [][\A p \in Procs :
       /\ (result[p].status # "none" /\ result'[p] # result[p]) =>
            /\ started' = started + 1
            /\ pc[p] = "done"
            /\ pc'[p] = op'[p] \/ op'[p] = "unsupported"
       /\ (result[p].status = "none" /\ result'[p].status # "none") =>
            /\ pc'[p] = "done"
            /\ result'[p].status \in {"ok", "error"}
            /\ pc[p] \notin {"idle", "done"} \/ op'[p] = "unsupported"
       /\ (pc[p] \notin {"idle", "done"} /\ pc'[p] = "done") =>
            /\ op[p] \in {"isAuthenticated", "startAuthFlow", "runScheduler"}
            /\ result[p].status = "none"
            /\ result'[p].status \in {"ok", "error"}
       /\ (pc[p] \notin {"idle", "done"} /\ pc'[p] # "done") =>
            result'[p].status = "none"
       /\ AnswersUnsupported(p) =>
            /\ pc'[p] = "done"
            /\ result'[p].status = "error"
            /\ result'[p].error = "Tipo de mensaje no soportado."
            /\ calls'[p] = NoCalls
            /\ \A q \in Procs \ {p} : calls'[q] = calls[q]
            /\ UNCHANGED <<store, tokens, req, accessToken, queries,
                           events>>]_vars

\* While a run waits for the calendar, another message, of no supported type,
\* has been answered with the failure.
C38_Witness ==
  /\ op[1] = "runScheduler" /\ pc[1] = "eventWait"
  /\ result[1].status = "none"
  /\ op[2] = "unsupported" /\ pc[2] = "done"
  /\ result[2].status = "error"
  /\ result[2].error = "Tipo de mensaje no soportado."
  /\ calls[2] = NoCalls

============================================================================
